---------------------------- MODULE Spec2Model ----------------------------
(***************************************************************************)
(* Model of the weather / hazelnut-advisory dashboard's computational      *)
(* core: the polygon sampler (lib/geoutils.py), the multi-point series     *)
(* aggregator, the degree-day, monthly and weekly roll-ups                 *)
(* (lib/data_sources.py) and the alert rules of the Models & Alerts page.  *)
(*                                                                         *)
(* Conventions.                                                            *)
(*  - A numeric cell of a pandas frame is a tuple: <<v>> holds the value   *)
(*    v, <<>> is NaN (missing).  Temperatures and precipitation are        *)
(*    integers in tenths (0.1 degC, 0.1 mm: the resolution of the data     *)
(*    source), so 35.0 degC is 350 and 1.0 mm is 10.                       *)
(*  - A frame is a record [idx, col]: idx is the index as a sequence, col  *)
(*    maps each column name to a function from index labels to cells.      *)
(*  - Each component has its own specification (SpecSampler, SpecAgg, ...) *)
(*    whose Init draws the inputs and whose actions apply the code; the    *)
(*    variables of the other components stay at their idle values.         *)
(***************************************************************************)
EXTENDS Integers, Sequences, FiniteSets, TLC

VARIABLES
    pc,          \* phase of the component under check
    geom,        \* sampler: the GeoJSON outer ring, a sequence of <<lon, lat>>
    max_points,  \* sampler: the caller's upper bound
    pts,         \* sampler: the returned list of points
    dfs,         \* aggregator: the list of per-point frames
    agg,         \* aggregator: the area frame it returns
    daily,       \* roll-ups and alerts: the daily frame handed to them
    args,        \* roll-ups and alerts: the caller's parameters
    out,         \* roll-ups and alerts: what the code computed
    store,       \* Field Store: the file data/orchards.json
    sess         \* Field Store: the browser sessions working on it

samplerVars == <<geom, max_points, pts>>
aggVars == <<dfs, agg>>
dailyVars == <<daily, args, out>>
storeVars == <<store, sess>>
vars == <<pc, geom, max_points, pts, dfs, agg, daily, args, out, store, sess>>

------------------------------------------------------------------------------
(* Generic helpers *)

NaN == <<>>
IsNaN(c) == c = <<>>
Num(c) == c[1]

Max2(a, b) == IF a >= b THEN a ELSE b
Min2(a, b) == IF a <= b THEN a ELSE b

SetMin(S) == CHOOSE x \in S : \A y \in S : x <= y
SetMax(S) == CHOOSE x \in S : \A y \in S : x >= y

RECURSIVE SumSeq(_)
SumSeq(s) == IF s = <<>> THEN 0 ELSE Head(s) + SumSeq(Tail(s))

RECURSIVE SortedSeq(_)
\* sorted(S): the elements of a finite set of integers in increasing order
SortedSeq(S) == IF S = {} THEN <<>> ELSE <<SetMin(S)>> \o SortedSeq(S \ {SetMin(S)})

Range(s) == {s[i] : i \in DOMAIN s}

\* ceil(sqrt(n)) for n >= 0
CeilSqrt(n) == CHOOSE r \in 0..n : r * r >= n /\ (r = 0 \/ (r - 1) * (r - 1) < n)

------------------------------------------------------------------------------
(* Polygon sampler: lib/geoutils.py                                        *)
(* A sampled point is <<latNum, lonNum, den>>: the coordinate              *)
(* (latNum/den, lonNum/den).  Grid nodes of np.linspace over g nodes have  *)
(* den = g - 1, the vertex mean has den = len(poly); vertices are          *)
(* integers, so every comparison below is exact.                           *)

Lon(c) == c[1]
Lat(c) == c[2]

\* polygon_bounds: (min_lat, min_lon, max_lat, max_lon) over ALL ring entries
polygon_bounds(coords) ==
    LET lats == {Lat(coords[i]) : i \in DOMAIN coords}
        lons == {Lon(coords[i]) : i \in DOMAIN coords}
    IN  <<SetMin(lats), SetMin(lons), SetMax(lats), SetMax(lons)>>

\* One edge of the ray cast (geoutils.py line 35).  x, y, and the vertex
\* coordinates are all scaled by the point's denominator.  The quotient
\* (x2-x1)*(y-y1)/(y2-y1+1e-12) is compared exactly; the 1e-12 only decides
\* the tie x - x1 = (x2-x1)*(y-y1)/(y2-y1): it shrinks the quotient towards 0
\* when y2 > y1 and grows it away from 0 when y2 < y1.
EdgeCond(x, y, x1, y1, x2, y2) ==
    /\ (y1 > y) # (y2 > y)
    /\ LET dy == y2 - y1
           a  == x - x1
           b  == (x2 - x1) * (y - y1)
       IN  IF dy > 0
           THEN (a * dy < b) \/ (a * dy = b /\ a < 0)
           ELSE (a * dy > b) \/ (a * dy = b /\ a > 0)

\* point_in_poly: parity of the number of edges i -> (i+1) % n that satisfy cond
point_in_poly(p, coords) ==
    LET n == Len(coords)
        d == p[3]
        crossing(i) ==
            LET j == (i % n) + 1
            IN  EdgeCond(p[2], p[1],
                         Lon(coords[i]) * d, Lat(coords[i]) * d,
                         Lon(coords[j]) * d, Lat(coords[j]) * d)
    IN  Cardinality({i \in 1..n : crossing(i)}) % 2 = 1

\* number of grid nodes per axis: max(2, ceil(sqrt(max_points)))
GridNodes(mp) == Max2(2, CeilSqrt(mp))

\* the g*g grid nodes in loop order (lat outer, lon inner), np.linspace(min, max, g)
GridSeq(coords, mp) ==
    LET b == polygon_bounds(coords)
        g == GridNodes(mp)
        d == g - 1
    IN  [k \in 1..(g * g) |->
            LET i == (k - 1) \div g
                j == (k - 1) % g
            IN  <<b[1] * d + i * (b[3] - b[1]), b[2] * d + j * (b[4] - b[2]), d>>]

\* the nodes that pass the test, in loop order
InsideNodes(coords, mp) == SelectSeq(GridSeq(coords, mp), LAMBDA p : point_in_poly(p, coords))

\* np.mean over poly: every ring entry counts, a repeated closing vertex included
VertexMean(coords) ==
    <<SumSeq([i \in DOMAIN coords |-> Lat(coords[i])]),
      SumSeq([i \in DOMAIN coords |-> Lon(coords[i])]),
      Len(coords)>>

LinspaceIdxLeading(L, m) == [i \in 1..m |-> i]

\* np.linspace(0, L-1, m).astype(int), 1-based here
LinspaceIdx(L, m) ==
    [i \in 1..m |-> IF m = 1 THEN 1 ELSE (((i - 1) * (L - 1)) \div (m - 1)) + 1]

DownsampleNone(list, mp) == list

\* geoutils.py lines 49-50
Downsample(list, mp) ==
    IF Len(list) > mp
    THEN LET idx == LinspaceIdx(Len(list), mp) IN [i \in 1..mp |-> list[idx[i]]]
    ELSE list

sample_points_from_session(coords, mp) ==
    IF pc \in {"session_idle", "session_called"} /\ args.sampled_points # <<>>
    THEN args.sampled_points
    ELSE LET inside == InsideNodes(coords, mp)
         IN  Downsample(IF inside = <<>> THEN <<VertexMean(coords)>> ELSE inside, mp)

\* sample_points_in_polygon(geom, max_points) on the ring geom["coordinates"][0]
sample_points_in_polygon(coords, mp) ==
    LET inside == InsideNodes(coords, mp)
        list   == IF inside = <<>> THEN <<VertexMean(coords)>> ELSE inside
    IN  Downsample(list, mp)

\* equality of two sampled points as coordinates
SamePoint(p, q) == p[1] * q[3] = q[1] * p[3] /\ p[2] * q[3] = q[2] * p[3]

------------------------------------------------------------------------------
(* Input domains of the sampler *)

MaxVerts == 3
MaxPointsBound == 9
Coords == {0, 1, 2}
Vertices == Coords \X Coords

\* rings of 3..MaxVerts vertices, open or closed by repeating the first vertex
Rings ==
    LET open == UNION {[1..n -> Vertices] : n \in 3..MaxVerts}
    IN  open \cup {Append(r, r[1]) : r \in open}

SamplerIdle == geom = <<>> /\ max_points = 0 /\ pts = <<>>
AggIdle == dfs = <<>> /\ agg = <<>>
DailyIdle == daily = <<>> /\ args = <<>> /\ out = <<>>
StoreIdle == store = <<>> /\ sess = <<>>

InitSampler ==
    /\ pc = "drawn"
    /\ geom \in Rings
    /\ max_points \in 1..MaxPointsBound
    /\ pts = <<>>
    /\ AggIdle /\ DailyIdle
    /\ StoreIdle

\* the page samples the drawn polygon (e.g. pages/4_Models_&_Alerts.py line 33)
SamplePolygon ==
    /\ pc = "drawn"
    /\ pts' = sample_points_in_polygon(geom, max_points)
    /\ pc' = "sampled"
    /\ UNCHANGED <<geom, max_points, aggVars, dailyVars, storeVars>>

NextSampler == SamplePolygon

SpecSampler == InitSampler /\ [][NextSampler]_vars

------------------------------------------------------------------------------
(* C1: for every ring of at least 3 vertices and every max_points >= 1 the *)
(* sampler returns between 1 and max_points points, and each returned      *)
(* point passes the ray-casting test or is the vertex-mean fallback.       *)
C1_SamplingBound ==
    pc = "sampled" =>
        /\ 1 <= Len(pts) /\ Len(pts) <= max_points
        /\ \A i \in DOMAIN pts :
              \/ point_in_poly(pts[i], geom)
              \/ SamePoint(pts[i], VertexMean(geom))

\* more nodes were inside than max_points allows, and the list was cut down
C1_Witness ==
    /\ pc = "sampled"
    /\ Len(InsideNodes(geom, max_points)) > max_points
    /\ Len(pts) = max_points

(* C13: when no grid node is inside the polygon the sampler returns exactly *)
(* one point, the arithmetic mean of the ring's distinct vertices: a       *)
(* closing vertex that repeats the first one is not counted twice.         *)
C13_FallbackDistinctMean ==
    LET ring == IF Len(geom) >= 2 /\ geom[Len(geom)] = geom[1]
                THEN SubSeq(geom, 1, Len(geom) - 1) ELSE geom
    IN  (pc = "sampled" /\ InsideNodes(geom, max_points) = <<>>) =>
            /\ Len(pts) = 1
            /\ SamePoint(pts[1], VertexMean(ring))

------------------------------------------------------------------------------
(* Down-sampling of the inside nodes: lib/geoutils.py lines 49-50.  With   *)
(* max_points >= 2 the grid has more inside nodes than max_points only for *)
(* rings that fold over themselves, the smallest of which have five        *)
(* vertices; these rings get a specification of their own.                 *)

MaxFoldVerts == 5

\* rings of 5..MaxFoldVerts vertices whose first side runs north along the
\* west side of the lattice, open or closed
FoldedRings ==
    LET open == {r \in UNION {[1..n -> Vertices] : n \in 5..MaxFoldVerts} :
                    r[1] = <<0, 0>> /\ r[2] = <<0, 2>>}
    IN  open \cup {Append(r, r[1]) : r \in open}

InitDownsample ==
    /\ pc = "drawn"
    /\ geom \in FoldedRings
    /\ max_points \in 1..MaxPointsBound
    /\ pts = <<>>
    /\ AggIdle /\ DailyIdle
    /\ StoreIdle

SpecDownsample == InitDownsample /\ [][NextSampler]_vars

\* the 1-based position of the i-th of m evenly spaced indices over a list of
\* L entries: the integer part of (i-1)*(L-1)/(m-1), plus one
EvenPosition(i, L, m) ==
    IF m = 1 THEN 1
    ELSE CHOOSE k \in 1..L :
            (k - 1) * (m - 1) <= (i - 1) * (L - 1) /\ (i - 1) * (L - 1) < k * (m - 1)

(* C12: when more than max_points grid nodes are inside the polygon, the   *)
(* sampler returns exactly max_points of them: the nodes at max_points     *)
(* different, evenly spaced positions of the ordered inside-node list, in  *)
(* list order; for max_points >= 2 the first and the last inside node are  *)
(* among them.                                                             *)
C12_EvenDownsample ==
    LET inside == InsideNodes(geom, max_points)
        L == Len(inside)
    IN  (pc = "sampled" /\ L > max_points) =>
            /\ Len(pts) = max_points
            /\ \A i \in 1..max_points : pts[i] = inside[EvenPosition(i, L, max_points)]
            /\ \A i \in 1..(max_points - 1) :
                  EvenPosition(i, L, max_points) < EvenPosition(i + 1, L, max_points)
            /\ max_points >= 2 => (pts[1] = inside[1] /\ pts[max_points] = inside[L])

\* six inside nodes cut down to five: the last one kept, an inner one dropped
C12_Witness ==
    /\ pc = "sampled"
    /\ max_points >= 2
    /\ Len(InsideNodes(geom, max_points)) > max_points
    /\ Len(pts) = max_points
    /\ pts[max_points] = InsideNodes(geom, max_points)[Len(InsideNodes(geom, max_points))]
    /\ \E k \in DOMAIN InsideNodes(geom, max_points) :
          \A i \in DOMAIN pts : pts[i] # InsideNodes(geom, max_points)[k]

------------------------------------------------------------------------------
(* Repeated sampling within one browser session.  The pages call the       *)
(* sampler on every rerun in which a polygon is drawn and keep the result  *)
(* in st.session_state; args is the session state, out the log of calls.   *)

MaxCalls == 3

\* the polygons drawn during the session
SessionRings ==
    {<<<<0, 0>>, <<2, 1>>, <<0, 2>>, <<0, 0>>>>,
     <<<<0, 0>>, <<2, 0>>, <<1, 2>>>>,
     <<<<0, 0>>, <<2, 0>>, <<2, 2>>, <<0, 2>>, <<0, 0>>>>}

\* the max_points the pages pass: the slider of the Weather page, 9 elsewhere
SessionMaxPoints == {1, 9}

\* [lat, lon] clicked on the map picker
SessionClicks == {<<40, 38>>, <<41, 39>>}

InitSession ==
    /\ pc = "session_idle"
    /\ args = [orchard_geom |-> <<>>, sampled_points |-> <<>>, picked_latlon |-> <<>>]
    /\ out = <<>>
    /\ daily = <<>>
    /\ SamplerIdle /\ AggIdle
    /\ StoreIdle

\* pts = sample_points_in_polygon(geom, max_points=...)
CallSampler ==
    /\ Len(out) < MaxCalls
    /\ \E g \in SessionRings, mp \in SessionMaxPoints :
          /\ geom' = g
          /\ max_points' = mp
          /\ pts' = sample_points_in_polygon(g, mp)
          /\ out' = Append(out, [geom |-> g, max_points |-> mp,
                                 pts |-> sample_points_in_polygon(g, mp)])
    /\ pc' = "session_called"
    /\ UNCHANGED <<args, daily, aggVars, storeVars>>

\* st.session_state["orchard_geom"] = geom; st.session_state["sampled_points"] = pts
StoreInSession ==
    /\ pc = "session_called"
    /\ args' = [args EXCEPT !.orchard_geom = geom, !.sampled_points = pts]
    /\ pc' = "session_idle"
    /\ UNCHANGED <<out, daily, samplerVars, aggVars, storeVars>>

\* st.session_state["picked_latlon"] = [lat_clicked, lon_clicked]
PickOnMap ==
    /\ \E c \in SessionClicks : c # args.picked_latlon /\
          args' = [args EXCEPT !.picked_latlon = c]
    /\ UNCHANGED <<pc, out, daily, samplerVars, aggVars, storeVars>>

NextSession == CallSampler \/ StoreInSession \/ PickOnMap

SpecSession == InitSession /\ [][NextSession]_vars

------------------------------------------------------------------------------
(* Series aggregator: lib/data_sources.py lines 90-104 *)

Columns(d) == DOMAIN d.col

\* pd.DataFrame(): no rows, no columns
EmptyFrame == [idx |-> <<>>, col |-> [c \in {} |-> <<>>]]

\* d.reindex(idx): labels absent from d become missing
Reindex(d, idx) ==
    [idx |-> idx,
     col |-> [c \in Columns(d) |->
                [t \in Range(idx) |-> IF t \in Range(d.idx) THEN d.col[c][t] ELSE NaN]]]

\* the non-missing cells of one row of the stacked frame
Present(cells) == SelectSeq(cells, LAMBDA c : ~IsNaN(c))

\* the row of the stacked frame at label t restricted to the columns named c:
\* one cell per input frame that has the column, in input order
StackedRow(aligned, c, t) ==
    LET holders == SelectSeq([i \in DOMAIN aligned |-> i],
                             LAMBDA i : c \in Columns(aligned[i]))
    IN  [k \in DOMAIN holders |-> aligned[holders[k]].col[c][t]]

RowMeanZeroFill(cells) ==
    IF Present(cells) = <<>> THEN NaN
    ELSE <<SumSeq([i \in DOMAIN Present(cells) |-> Num(Present(cells)[i])]) \div Len(cells)>>

\* groupby(level=1, axis=1).mean(): the mean of the non-missing cells (skipna)
RowMean(cells) ==
    LET p == Present(cells)
    IN  IF p = <<>> THEN NaN
        ELSE <<SumSeq([i \in DOMAIN p |-> Num(p[i])]) \div Len(p)>>

RowModeMissing(cells) == NaN

RowModeLargest(cells) ==
    LET p == Present(cells)
        count(v) == Cardinality({i \in DOMAIN p : p[i] = <<v>>})
        vals == {Num(p[i]) : i \in DOMAIN p}
    IN  IF p = <<>> THEN NaN
        ELSE <<SetMax({v \in vals : \A w \in vals : count(v) >= count(w)})>>

\* wc.mode(axis=1).iloc[:, 0]: the modes of a row come sorted, column 0 is the
\* smallest; a row with no value has none
RowMode(cells) ==
    LET p == Present(cells)
        count(v) == Cardinality({i \in DOMAIN p : p[i] = <<v>>})
        vals == {Num(p[i]) : i \in DOMAIN p}
    IN  IF p = <<>> THEN NaN
        ELSE <<SetMin({v \in vals : \A w \in vals : count(v) >= count(w)})>>

\* sorted(set().union(*[d.index for d in aligned]))
UnionIndex(frames) == SortedSeq(UNION {Range(frames[i].idx) : i \in DOMAIN frames})

aggregate_daily_across_points(frames) ==
    IF frames = <<>> THEN EmptyFrame
    ELSE
      LET idx == UnionIndex(frames)
          aligned == [i \in DOMAIN frames |-> Reindex(frames[i], idx)]
          numeric_cols == Columns(aligned[1]) \ {"weathercode"}
          agg_num == [c \in numeric_cols |->
                        [t \in Range(idx) |-> RowMean(StackedRow(aligned, c, t))]]
          wc_mode == [t \in Range(idx) |-> RowMode(StackedRow(aligned, "weathercode", t))]
      IN  [idx |-> idx,
           col |-> IF "weathercode" \in Columns(aligned[1])
                   THEN [c \in numeric_cols \cup {"weathercode"} |->
                            IF c = "weathercode" THEN wc_mode ELSE agg_num[c]]
                   ELSE agg_num]

------------------------------------------------------------------------------
(* Input domains of the aggregator *)

MaxSeries == 3
AggDays == {1, 2}

RECURSIVE Factorial(_)
Factorial(n) == IF n <= 1 THEN 1 ELSE n * Factorial(n - 1)

\* numeric inputs are multiples of AggUnit, so the mean of up to MaxSeries of
\* them is an integer and the division in RowMean is exact
AggUnit == Factorial(MaxSeries)

\* one row of a per-point daily frame: <<precip_sum_api, weathercode>>
AggRows == {<<NaN, NaN>>, <<<<AggUnit>>, <<3>>>>, <<<<4 * AggUnit>>, <<1>>>>}

PointFrames ==
    {[idx |-> SortedSeq(S),
      col |-> [c \in {"precip_sum_api", "weathercode"} |->
                 [t \in S |-> IF c = "weathercode" THEN r[t][2] ELSE r[t][1]]]] :
        <<S, r>> \in {<<S2, r2>> \in (SUBSET AggDays) \X UNION {[S3 -> AggRows] : S3 \in SUBSET AggDays} :
                         DOMAIN r2 = S2}}

InitAgg ==
    /\ pc = "fetched"
    /\ dfs \in UNION {[1..n -> PointFrames] : n \in 0..MaxSeries}
    /\ agg = <<>>
    /\ SamplerIdle /\ DailyIdle
    /\ StoreIdle

\* ddf = aggregate_daily_across_points(daily_list)  (pages/1_Weather_&_Forecast.py line 127)
AggregateDaily ==
    /\ pc = "fetched"
    /\ agg' = aggregate_daily_across_points(dfs)
    /\ pc' = "aggregated"
    /\ UNCHANGED <<dfs, samplerVars, dailyVars, storeVars>>

NextAgg == AggregateDaily

SpecAgg == InitAgg /\ [][NextAgg]_vars

\* the inputs that hold a non-missing value of column c at label t
HoldersAt(c, t) ==
    {i \in DOMAIN dfs : /\ c \in Columns(dfs[i])
                        /\ t \in Range(dfs[i].idx)
                        /\ ~IsNaN(dfs[i].col[c][t])}

RECURSIVE SumAt(_, _, _)
SumAt(S, c, t) ==
    IF S = {} THEN 0
    ELSE LET i == CHOOSE j \in S : TRUE
         IN  Num(dfs[i].col[c][t]) + SumAt(S \ {i}, c, t)

StrictlyIncreasing(s) == \A i \in 1..(Len(s) - 1) : s[i] < s[i + 1]

(* C2: the aggregate's timestamps are exactly the sorted union of the      *)
(* inputs' timestamps, and at each timestamp the numeric value is the mean *)
(* of exactly the k inputs that hold a value there (missing when k = 0):   *)
(* absent inputs are not counted as zeros.                                 *)
C2_MeanOfPresent ==
    (pc = "aggregated" /\ dfs # <<>>) =>
        /\ StrictlyIncreasing(agg.idx)
        /\ Range(agg.idx) = UNION {Range(dfs[i].idx) : i \in DOMAIN dfs}
        /\ \A c \in Columns(agg) \ {"weathercode"} : \A t \in Range(agg.idx) :
              LET H == HoldersAt(c, t)
              IN  IF H = {} THEN IsNaN(agg.col[c][t])
                  ELSE /\ ~IsNaN(agg.col[c][t])
                       /\ Num(agg.col[c][t]) * Cardinality(H) = SumAt(H, c, t)

\* a timestamp held by exactly 1 of 3 inputs: the aggregate is that one value
C2_Witness ==
    /\ pc = "aggregated" /\ Len(dfs) = 3
    /\ \A j \in DOMAIN dfs : dfs[j].idx # <<>>
    /\ \E t \in Range(agg.idx) : \E i \in DOMAIN dfs :
          /\ HoldersAt("precip_sum_api", t) = {i}
          /\ agg.col["precip_sum_api"][t] = dfs[i].col["precip_sum_api"][t]
          /\ \E j \in DOMAIN dfs : t \notin Range(dfs[j].idx)

CodeCount(t, v) ==
    Cardinality({i \in HoldersAt("weathercode", t) : dfs[i].col["weathercode"][t] = <<v>>})

CodesAt(t) == {Num(dfs[i].col["weathercode"][t]) : i \in HoldersAt("weathercode", t)}

(* C10: the aggregated weather code at each timestamp is a most frequent   *)
(* code among the non-missing inputs there, the smallest of the tied       *)
(* codes, and missing when every input is missing there.                   *)
C10_ModeSmallestTie ==
    (pc = "aggregated" /\ dfs # <<>> /\ "weathercode" \in Columns(agg)) =>
        \A t \in Range(agg.idx) :
            IF CodesAt(t) = {} THEN IsNaN(agg.col["weathercode"][t])
            ELSE /\ ~IsNaN(agg.col["weathercode"][t])
                 /\ LET v == Num(agg.col["weathercode"][t])
                    IN  /\ v \in CodesAt(t)
                        /\ \A w \in CodesAt(t) : CodeCount(t, v) >= CodeCount(t, w)
                        /\ \A w \in CodesAt(t) : CodeCount(t, w) = CodeCount(t, v) => v <= w

\* two codes tied at a timestamp, the smaller one returned; another timestamp
\* where every input is missing
C10_Witness ==
    /\ pc = "aggregated"
    /\ \E t \in Range(agg.idx) :
          /\ CodesAt(t) = {1, 3}
          /\ CodeCount(t, 1) = CodeCount(t, 3)
          /\ agg.col["weathercode"][t] = <<1>>
    /\ \E t \in Range(agg.idx) :
          CodesAt(t) = {} /\ IsNaN(agg.col["weathercode"][t])

(* C11: aggregating a list of one daily series returns that series: the    *)
(* same timestamps in the same order, the same fields, and at every        *)
(* timestamp the same value or missing for every field, the weather code   *)
(* included.                                                               *)
C11_SingleSeriesIdentity ==
    (pc = "aggregated" /\ Len(dfs) = 1) =>
        /\ agg.idx = dfs[1].idx
        /\ Columns(agg) = Columns(dfs[1])
        /\ \A c \in Columns(dfs[1]) : \A t \in Range(dfs[1].idx) :
              agg.col[c][t] = dfs[1].col[c][t]

\* one series of two days, one day with values and a weather code, the other
\* all missing
C11_Witness ==
    /\ pc = "aggregated" /\ Len(dfs) = 1
    /\ Len(agg.idx) = 2
    /\ \E t \in Range(dfs[1].idx) :
          /\ agg.col["weathercode"][t] = <<3>>
          /\ agg.col["precip_sum_api"][t] = <<AggUnit>>
    /\ \E t \in Range(dfs[1].idx) :
          /\ IsNaN(dfs[1].col["weathercode"][t]) /\ IsNaN(agg.col["weathercode"][t])
          /\ IsNaN(dfs[1].col["precip_sum_api"][t]) /\ IsNaN(agg.col["precip_sum_api"][t])

------------------------------------------------------------------------------
(* Growing degree days: lib/data_sources.py lines 114-122 and the          *)
(* "Compute GDD" button of pages/4_Models_&_Alerts.py lines 70-75          *)

\* df.get(a, df.get(b)): the name of the column found, "" for None
GetCol(d, a, b) == IF a \in Columns(d) THEN a ELSE IF b \in Columns(d) THEN b ELSE ""

\* df.empty: no rows or no columns
FrameEmpty(d) == d.idx = <<>> \/ Columns(d) = {}

\* pd.Series(dtype=float)
EmptySeries == [idx |-> <<>>, val |-> [t \in {} |-> <<>>]]

\* Series.clip(upper=cap): cap <<>> stands for cap_c = None (no clipping)
ClipUpper(c, cap) == IF IsNaN(c) \/ IsNaN(cap) THEN c ELSE <<Min2(Num(c), Num(cap))>>

\* Series.clip(lower=lo)
ClipLower(c, lo) == IF IsNaN(c) THEN c ELSE <<Max2(Num(c), lo)>>

\* elementwise +, NaN if either side is
AddCells(a, b) == IF IsNaN(a) \/ IsNaN(b) THEN NaN ELSE <<Num(a) + Num(b)>>

GddDayCapAfterMean(tmin, tmax, base_c, cap_c) ==
    LET tmean == AddCells(tmin, tmax)
        capped == ClipUpper(IF IsNaN(tmean) THEN NaN ELSE <<Num(tmean) \div 2>>, cap_c)
    IN  ClipLower(IF IsNaN(capped) THEN NaN ELSE <<Num(capped) - base_c>>, 0)

GddDayNoFloor(tmin, tmax, base_c, cap_c) ==
    LET tmean == AddCells(tmin, ClipUpper(tmax, cap_c))
    IN  IF IsNaN(tmean) THEN NaN ELSE <<(Num(tmean) \div 2) - base_c>>

\* one element of lines 119-121.  Temperatures are even numbers of tenths, so
\* the division by 2.0 is exact
GddDay(tmin, tmax, base_c, cap_c) ==
    LET tmaxc == ClipUpper(tmax, cap_c)
        tsum  == AddCells(tmin, tmaxc)
        tmean == IF IsNaN(tsum) THEN NaN ELSE <<Num(tsum) \div 2>>
    IN  ClipLower(IF IsNaN(tmean) THEN NaN ELSE <<Num(tmean) - base_c>>, 0)

compute_gdd(d, base_c, cap_c) ==
    LET tmin == GetCol(d, "t_min_api", "temperature_2m_min")
        tmax == GetCol(d, "t_max_api", "temperature_2m_max")
    IN  IF tmin = "" \/ tmax = "" THEN EmptySeries
        ELSE [idx |-> d.idx,
              val |-> [t \in Range(d.idx) |->
                         GddDay(d.col[tmin][t], d.col[tmax][t], base_c, cap_c)]]

\* Series.sum(): missing values are skipped, an empty series sums to 0
SeriesSum(sr) ==
    LET p == Present([i \in DOMAIN sr.idx |-> sr.val[sr.idx[i]]])
    IN  SumSeq([i \in DOMAIN p |-> Num(p[i])])

------------------------------------------------------------------------------
(* Input domains of the GDD computation *)

MaxGddDays == 2

\* daily min / max temperature cells, tenths of a degree
TempCells == {NaN, <<-40>>, <<100>>, <<400>>}
BaseChoices == {100, 55}
CapChoices == {NaN, <<350>>, <<300>>}

GddColumnSets ==
    {{"t_min_api", "t_max_api"},
     {"temperature_2m_min", "temperature_2m_max"},
     {"t_min_api", "rh_mean"}}

FramesOver(cols, n, cells) ==
    {[idx |-> [i \in 1..n |-> i], col |-> f] : f \in [cols -> [1..n -> cells]]}

InitGdd ==
    /\ pc = "gdd_ready"
    /\ daily \in UNION {FramesOver(cols, n, TempCells) :
                          <<cols, n>> \in GddColumnSets \X (0..MaxGddDays)}
    /\ args \in [base_c : BaseChoices, cap_c : CapChoices]
    /\ out = <<>>
    /\ SamplerIdle /\ AggIdle
    /\ StoreIdle

\* pages/4_Models_&_Alerts.py lines 70-75
ComputeGDD ==
    /\ pc = "gdd_ready"
    /\ out' = IF FrameEmpty(daily)
              THEN [warning |-> TRUE, gdd |-> EmptySeries, total |-> 0]
              ELSE LET gdd == compute_gdd(daily, args.base_c, args.cap_c)
                   IN  [warning |-> FALSE, gdd |-> gdd, total |-> SeriesSum(gdd)]
    /\ pc' = "gdd_done"
    /\ UNCHANGED <<daily, args, samplerVars, aggVars, storeVars>>

NextGdd == ComputeGDD

SpecGdd == InitGdd /\ [][NextGdd]_vars

\* the day's min / max cells as compute_gdd picks them, NaN when the column is absent
TminOf(t) ==
    LET c == GetCol(daily, "t_min_api", "temperature_2m_min")
    IN  IF c = "" THEN NaN ELSE daily.col[c][t]

TmaxOf(t) ==
    LET c == GetCol(daily, "t_max_api", "temperature_2m_max")
    IN  IF c = "" THEN NaN ELSE daily.col[c][t]

GddDefined(t) == t \in Range(out.gdd.idx) /\ ~IsNaN(out.gdd.val[t])

(* C3: for each day with tmin and tmax defined, GDD is                     *)
(* max(0, (tmin + min(tmax, cap)) / 2 - base): the cap clips tmax before   *)
(* the mean is taken; with no cap tmax is used unchanged.                  *)
C3_GddFormula ==
    (pc = "gdd_done" /\ ~out.warning) =>
        \A t \in Range(daily.idx) :
            (~IsNaN(TminOf(t)) /\ ~IsNaN(TmaxOf(t))) =>
                /\ GddDefined(t)
                /\ LET tmaxc == IF IsNaN(args.cap_c) THEN Num(TmaxOf(t))
                                ELSE Min2(Num(TmaxOf(t)), Num(args.cap_c))
                   IN  2 * Num(out.gdd.val[t]) =
                          Max2(0, Num(TminOf(t)) + tmaxc - 2 * args.base_c)

\* the spec's example: tmin 10, tmax 40, base 10, cap 35 gives 12.5
C3_Witness ==
    /\ pc = "gdd_done"
    /\ args.base_c = 100 /\ args.cap_c = <<350>>
    /\ \E t \in Range(daily.idx) :
          /\ TminOf(t) = <<100>> /\ TmaxOf(t) = <<400>>
          /\ out.gdd.val[t] = <<125>>

RECURSIVE SumDefinedGdd(_)
SumDefinedGdd(S) ==
    IF S = {} THEN 0
    ELSE LET t == CHOOSE u \in S : TRUE
         IN  Num(out.gdd.val[t]) + SumDefinedGdd(S \ {t})

(* C4: a defined daily GDD is >= 0; the GDD of a day whose tmin or tmax is *)
(* missing is missing (not 0); the season total is the sum of the defined  *)
(* daily values only.                                                      *)
C4_GddNonNegative ==
    (pc = "gdd_done" /\ ~out.warning) =>
        /\ \A t \in Range(daily.idx) :
              /\ GddDefined(t) => Num(out.gdd.val[t]) >= 0
              /\ (IsNaN(TminOf(t)) \/ IsNaN(TmaxOf(t))) => ~GddDefined(t)
        /\ out.total = SumDefinedGdd({t \in Range(daily.idx) : GddDefined(t)})

\* a cold day floored at 0 next to a day whose missing tmax leaves its GDD missing
C4_Witness ==
    /\ pc = "gdd_done"
    /\ \E t \in Range(daily.idx) :
          /\ TminOf(t) = <<-40>> /\ TmaxOf(t) = <<100>>
          /\ out.gdd.val[t] = <<0>>
    /\ \E t \in Range(daily.idx) :
          /\ IsNaN(TmaxOf(t)) /\ ~IsNaN(TminOf(t))
          /\ t \in Range(out.gdd.idx) /\ IsNaN(out.gdd.val[t])

------------------------------------------------------------------------------
(* Calendar of a DatetimeIndex.  A date is its number of days since        *)
(* 1970-01-01 (a Thursday).                                                *)

\* index.weekday: Monday = 0 ... Sunday = 6
Weekday(z) == (z + 3) % 7

\* <<year, month, day>> of the proleptic Gregorian calendar, for z >= 0
CivilFromDays(z) ==
    LET zz  == z + 719468
        era == zz \div 146097
        doe == zz - era * 146097
        yoe == (doe - doe \div 1460 + doe \div 36524 - doe \div 146096) \div 365
        doy == doe - (365 * yoe + yoe \div 4 - yoe \div 100)
        mp  == (5 * doy + 2) \div 153
        d   == doy - (153 * mp + 2) \div 5 + 1
        m   == IF mp < 10 THEN mp + 3 ELSE mp - 9
        y   == yoe + era * 400 + (IF m <= 2 THEN 1 ELSE 0)
    IN  <<y, m, d>>

\* index.month
MonthOf(z) == CivilFromDays(z)[2]

\* index.to_period("M").astype(str): "YYYY-MM", held as the number YYYYMM
MonthLabel(z) == CivilFromDays(z)[1] * 100 + CivilFromDays(z)[2]

------------------------------------------------------------------------------
(* Weekly precipitation: lib/data_sources.py lines 156-166, and the        *)
(* drought-like-week rule of pages/4_Models_&_Alerts.py lines 149-164      *)

WeekLabelLeftClosed(t) == t + 7 - Weekday(t)

\* resample("W-MON"): weekly bins anchored on Monday are closed and labelled on
\* the right, so a date belongs to the bin labelled by the first Monday on or
\* after it
WeekLabel(t) == t + ((7 - Weekday(t)) % 7)

\* the labels of the bins that hold at least one date, as a groupby would give
WeekLabelsOfRecords(idx) == SortedSeq({WeekLabel(idx[i]) : i \in DOMAIN idx})

\* the labels of the bins from the first date's to the last date's, 7 days apart
WeekLabels(idx) ==
    LET first == WeekLabel(idx[1])
        last  == WeekLabel(idx[Len(idx)])
    IN  [k \in 1..(((last - first) \div 7) + 1) |-> first + 7 * (k - 1)]

\* .sum() of one bin: missing values skipped, an empty bin sums to 0
BinSum(d, pr, L) ==
    LET members == SelectSeq(d.idx, LAMBDA t : WeekLabel(t) = L)
        p == Present([i \in DOMAIN members |-> d.col[pr][members[i]]])
    IN  SumSeq([i \in DOMAIN p |-> Num(p[i])])

\* index.to_period("W-MON").start_time.date: the period that ends on Monday L
PeriodStart(L) == L - 6

\* index.to_period("W-MON").end_time.date
PeriodEnd(L) == L

weekly_precip_from_daily(d) ==
    LET pr == GetCol(d, "precip_sum_api", "precipitation_sum")
    IN  IF FrameEmpty(d) \/ pr = "" THEN EmptyFrame
        ELSE LET labels == WeekLabels(d.idx)
             IN  [idx |-> labels,
                  col |-> [c \in {"precip_week_sum", "week_start", "week_end", "month"} |->
                            [L \in Range(labels) |->
                               CASE c = "precip_week_sum" -> <<BinSum(d, pr, L)>>
                                 [] c = "week_start" -> <<PeriodStart(L)>>
                                 [] c = "week_end" -> <<PeriodEnd(L)>>
                                 [] OTHER -> <<MonthLabel(L)>>]]]

TriggersAtOrBelow(sum, threshold) == sum <= threshold

\* sel["precip_week_sum"] < weekly_precip_threshold
Triggers(sum, threshold) == sum < threshold

\* lines 153-155: the buckets of the monitored months, and those below the threshold
DroughtWeeks(weekly, weeks_months, threshold) ==
    LET sel == SelectSeq(weekly.idx, LAMBDA L : MonthOf(L) \in weeks_months)
    IN  [sel |-> sel,
         drought_weeks |-> SelectSeq(sel,
             LAMBDA L : Triggers(Num(weekly.col["precip_week_sum"][L]), threshold))]

------------------------------------------------------------------------------
(* Input domains of the weekly rule *)

\* 2024-06-24, a Monday
FirstDay == 19898
WeekDays == 4

\* daily precipitation cells, tenths of a mm
PrecipCells == {NaN, <<0>>, <<100>>, <<250>>}
MonthSets == {{}, {6}, {7}, {6, 7}}
WeeklyThresholds == {250, 100}

\* a frame over n consecutive dates from s
FramesFrom(cols, s, n, cells) ==
    {[idx |-> [i \in 1..n |-> s + i - 1], col |-> f] :
        f \in [cols -> [s..(s + n - 1) -> cells]]}

InitWeekly ==
    /\ pc = "alerts_ready"
    /\ daily \in UNION {FramesFrom({"precip_sum_api"}, s, WeekDays, PrecipCells) :
                          s \in FirstDay..(FirstDay + 6)}
                 \cup FramesFrom({"t_max_api"}, FirstDay, 1, PrecipCells)
    /\ args \in [weeks_months : MonthSets, weekly_precip_threshold : WeeklyThresholds]
    /\ out = <<>>
    /\ SamplerIdle /\ AggIdle
    /\ StoreIdle

\* pages/4_Models_&_Alerts.py lines 149-164
EvaluateDroughtWeeks ==
    /\ pc = "alerts_ready"
    /\ LET weekly == weekly_precip_from_daily(daily)
       IN  out' = IF FrameEmpty(weekly)
                  THEN [info |-> TRUE, weekly |-> weekly, sel |-> <<>>, drought_weeks |-> <<>>]
                  ELSE LET r == DroughtWeeks(weekly, args.weeks_months,
                                             args.weekly_precip_threshold)
                       IN  [info |-> FALSE, weekly |-> weekly,
                            sel |-> r.sel, drought_weeks |-> r.drought_weeks]
    /\ pc' = "alerts_done"
    /\ UNCHANGED <<daily, args, samplerVars, aggVars, storeVars>>

NextWeekly == EvaluateDroughtWeeks

SpecWeekly == InitWeekly /\ [][NextWeekly]_vars

\* the daily precipitation column the weekly roll-up reads
PrOf(t) == daily.col[GetCol(daily, "precip_sum_api", "precipitation_sum")][t]

RECURSIVE SumPrecipOver(_)
\* the sum of the defined daily precipitation over a set of dates
SumPrecipOver(S) ==
    IF S = {} THEN 0
    ELSE LET t == CHOOSE u \in S : TRUE
         IN  (IF IsNaN(PrOf(t)) THEN 0 ELSE Num(PrOf(t))) + SumPrecipOver(S \ {t})

WeekCell(c, L) == Num(out.weekly.col[c][L])

\* what holds of the buckets whatever the weekday they start on: they are 7
\* days long, follow each other without gap or overlap, cover every daily
\* date, and each sums exactly the days from its week_start to its week_end
WeeklyPartition ==
    /\ \A L \in Range(out.weekly.idx) :
          /\ WeekCell("week_end", L) - WeekCell("week_start", L) = 6
          /\ WeekCell("precip_week_sum", L) =
                SumPrecipOver({t \in Range(daily.idx) :
                    WeekCell("week_start", L) <= t /\ t <= WeekCell("week_end", L)})
    /\ \A k \in 1..(Len(out.weekly.idx) - 1) :
          WeekCell("week_start", out.weekly.idx[k + 1]) =
              WeekCell("week_end", out.weekly.idx[k]) + 1
    /\ \A t \in Range(daily.idx) : \E L \in Range(out.weekly.idx) :
          WeekCell("week_start", L) <= t /\ t <= WeekCell("week_end", L)

(* C6, as claimed: the buckets partition the daily precipitation into runs *)
(* of 7 consecutive days that each start on a Monday, week_start is that   *)
(* Monday, and each sum is over the days from week_start to week_end.      *)
C6_MondayStart ==
    (pc = "alerts_done" /\ ~out.info) =>
        /\ WeeklyPartition
        /\ \A L \in Range(out.weekly.idx) : Weekday(WeekCell("week_start", L)) = 0

(* C6, amended: the buckets partition the daily precipitation into runs of *)
(* 7 consecutive days that each END on a Monday (Tuesday to Monday):       *)
(* week_end is that Monday, week_start the Tuesday six days before, and    *)
(* each sum is over the days from week_start to week_end.                  *)
C6_MondayEnd ==
    (pc = "alerts_done" /\ ~out.info) =>
        /\ WeeklyPartition
        /\ \A L \in Range(out.weekly.idx) :
              /\ Weekday(WeekCell("week_end", L)) = 0
              /\ Weekday(WeekCell("week_start", L)) = 1

\* rain on a Monday and on the Tuesday after it lands in two different buckets
C6_Witness ==
    /\ pc = "alerts_done" /\ ~out.info
    /\ \E t \in Range(daily.idx) :
          /\ Weekday(t) = 0 /\ (t + 1) \in Range(daily.idx)
          /\ PrOf(t) = <<100>> /\ PrOf(t + 1) = <<250>>
          /\ \E L1, L2 \in Range(out.weekly.idx) :
                /\ L1 # L2
                /\ WeekCell("week_end", L1) = t
                /\ WeekCell("week_start", L2) = t + 1
                /\ WeekCell("precip_week_sum", L1) >= 100
                /\ WeekCell("precip_week_sum", L2) >= 250

\* s is the subsequence of the sequence idx made of its entries in S
IsFilterOf(s, idx, S) == s = SelectSeq(idx, LAMBDA x : x \in S)

(* C7: the filtered list is exactly the weekly buckets whose month is in   *)
(* the chosen month set; the triggered subset is exactly the filtered      *)
(* buckets whose sum is strictly below the threshold (a sum equal to the   *)
(* threshold does not trigger), hence a subset of the filtered list.       *)
C7_DroughtWeekRule ==
    (pc = "alerts_done" /\ ~out.info) =>
        LET inMonths == {L \in Range(out.weekly.idx) : MonthOf(L) \in args.weeks_months}
            below == {L \in inMonths :
                        WeekCell("precip_week_sum", L) < args.weekly_precip_threshold}
        IN  /\ IsFilterOf(out.sel, out.weekly.idx, inMonths)
            /\ IsFilterOf(out.drought_weeks, out.weekly.idx, below)
            /\ Range(out.drought_weeks) \subseteq Range(out.sel)

\* two monitored buckets, one below the threshold (triggers) and one exactly
\* at it (does not)
C7_Witness ==
    /\ pc = "alerts_done" /\ ~out.info
    /\ Len(out.sel) = 2 /\ Len(out.drought_weeks) = 1
    /\ \E L \in Range(out.sel) :
          /\ WeekCell("precip_week_sum", L) = args.weekly_precip_threshold
          /\ L \notin Range(out.drought_weeks)
    /\ \E L \in Range(out.drought_weeks) :
          /\ WeekCell("precip_week_sum", L) > 0
          /\ WeekCell("precip_week_sum", L) < args.weekly_precip_threshold

------------------------------------------------------------------------------
(* Heat-day accumulation: lib/data_sources.py lines 168-174 and            *)
(* pages/4_Models_&_Alerts.py lines 166-173                                *)

IsHeatDayStrict(c, threshold_c) == ~IsNaN(c) /\ Num(c) > threshold_c

\* sel[tmax.name] >= threshold_c: a comparison with NaN is False
IsHeatDay(c, threshold_c) == ~IsNaN(c) /\ Num(c) >= threshold_c

count_heat_days_in_month(d, month, threshold_c) ==
    LET tmax == GetCol(d, "t_max_api", "temperature_2m_max")
    IN  IF FrameEmpty(d) \/ tmax = "" THEN 0
        ELSE Cardinality({t \in Range(d.idx) :
                            MonthOf(t) = month /\ IsHeatDay(d.col[tmax][t], threshold_c)})

------------------------------------------------------------------------------
(* Input domains of the heat-day rule *)

\* 2024-06-30: the frame holds HeatSpan days from it and the same days a year later
HeatFirst == 19904
HeatSpan == 3

HeatCells == {NaN, <<340>>, <<350>>}
HeatMonths == {6, 7}
HeatThresholds == {350, 340}
HeatMinimums == {2, 3}

HeatDates == [i \in 1..(2 * HeatSpan) |->
                IF i <= HeatSpan THEN HeatFirst + i - 1
                ELSE HeatFirst + 365 + (i - HeatSpan) - 1]

HeatFrames(cols) ==
    {[idx |-> HeatDates, col |-> f] : f \in [cols -> [Range(HeatDates) -> HeatCells]]}

InitHeat ==
    /\ pc = "heat_ready"
    /\ daily \in HeatFrames({"t_max_api"}) \cup HeatFrames({"temperature_2m_max"})
                 \cup HeatFrames({"precip_sum_api"})
    /\ args \in [heat_month : HeatMonths, heat_temp_thresh : HeatThresholds,
                 heat_count_thresh : HeatMinimums]
    /\ out = <<>>
    /\ SamplerIdle /\ AggIdle
    /\ StoreIdle

\* pages/4_Models_&_Alerts.py lines 167-173
EvaluateHeatDays ==
    /\ pc = "heat_ready"
    /\ LET count == count_heat_days_in_month(daily, args.heat_month, args.heat_temp_thresh)
       IN  out' = [count |-> count, triggered |-> count >= args.heat_count_thresh]
    /\ pc' = "heat_done"
    /\ UNCHANGED <<daily, args, samplerVars, aggVars, storeVars>>

NextHeat == EvaluateHeatDays

SpecHeat == InitHeat /\ [][NextHeat]_vars

\* the days of the chosen calendar month, of any year, at or above the threshold
HotDays ==
    {t \in Range(daily.idx) :
        /\ CivilFromDays(t)[2] = args.heat_month
        /\ ~IsNaN(TmaxOf(t))
        /\ Num(TmaxOf(t)) >= args.heat_temp_thresh}

(* C8: the count is the number of days of the given calendar month, of any *)
(* year of the range, whose max temperature is >= the threshold (a missing *)
(* max temperature never counts), and the rule fires iff the count is >=   *)
(* the trigger minimum.                                                    *)
C8_HeatDayRule ==
    pc = "heat_done" =>
        /\ out.count = Cardinality(HotDays)
        /\ out.triggered <=> (Cardinality(HotDays) >= args.heat_count_thresh)

\* July days of two different years counted together, one of them exactly at
\* the threshold, one below it and one missing: count 2 fires for minimum 2
C8_Witness ==
    /\ pc = "heat_done"
    /\ args.heat_month = 7 /\ args.heat_temp_thresh = 350 /\ args.heat_count_thresh = 2
    /\ out.count = 2 /\ out.triggered
    /\ \E t \in HotDays : TmaxOf(t) = <<350>>
    /\ \E t, u \in HotDays : CivilFromDays(t)[1] # CivilFromDays(u)[1]
    /\ \E t \in Range(daily.idx) : MonthOf(t) = 7 /\ TmaxOf(t) = <<340>>
    /\ \E t \in Range(daily.idx) : MonthOf(t) = 7 /\ IsNaN(TmaxOf(t))
    /\ \E t \in Range(daily.idx) : MonthOf(t) = 6 /\ TmaxOf(t) = <<350>>

------------------------------------------------------------------------------
(* Monthly roll-up: lib/data_sources.py lines 125-154, called by the       *)
(* "Build monthly guide" button of pages/5_Hazelnut_Guide.py lines 163-168 *)

\* The values of the boolean key Series (pr > limit), as pandas prints them.
\* A comparison with NaN is False.
MaskLabels(d, c, limit) ==
    {IF ~IsNaN(d.col[c][t]) /\ Num(d.col[c][t]) > limit THEN "True" ELSE "False" :
        t \in Range(d.idx)}

\* df.groupby("month")[key] with a list-like key (a list, an array, a Series):
\* pandas takes the VALUES of the key as column labels and raises KeyError
\* "Columns not found" unless every one of them is a column of df.  A boolean
\* Series is therefore a list of the labels True / False, not a row mask.
GroupBySelectsColumns(d, labels) == labels \subseteq (Columns(d) \cup {"month"})

\* df.groupby("month")[name] with a scalar key: KeyError "Column not found"
\* unless name is a column; the unnamed default Series has name None
GroupBySelectsColumn(d, name) == name \in (Columns(d) \cup {"month"})

\* sorted(df["month"].unique())
MonthsOf(d) == SortedSeq({MonthLabel(t) : t \in Range(d.idx)})

\* the sum over one month of the defined cells of column c
MonthSum(d, c, m) ==
    LET days == SelectSeq(d.idx, LAMBDA t : MonthLabel(t) = m)
        p == Present([i \in DOMAIN days |-> d.col[c][days[i]]])
    IN  SumSeq([i \in DOMAIN p |-> Num(p[i])])

\* The outcome of monthly_from_daily: the frame it returns, or the exception
\* it raises.  pr is never None (line 134 defaults it to an unnamed Series), so
\* lines 144-146 always run: line 144 raises when no precipitation column
\* exists (pr.name is None), line 145 raises otherwise, because the key
\* (pr > 1.0) is a non-empty boolean Series and no column is named True or False.
monthly_from_daily(d) ==
    IF FrameEmpty(d) THEN [raised |-> "", frame |-> EmptyFrame]
    ELSE
      LET pr == GetCol(d, "precip_sum_api", "precipitation_sum")
      IN  IF ~GroupBySelectsColumn(d, pr)
          THEN [raised |-> "KeyError: Column not found: None", frame |-> EmptyFrame]
          ELSE IF ~GroupBySelectsColumns(d, MaskLabels(d, pr, 10))
          THEN [raised |-> "KeyError: Columns not found", frame |-> EmptyFrame]
          ELSE [raised |-> "",
                frame |-> [idx |-> MonthsOf(d),
                           col |-> [c \in {"precip_total"} |->
                                      [m \in Range(MonthsOf(d)) |-> <<MonthSum(d, pr, m)>>]]]]

------------------------------------------------------------------------------
(* Input domains of the monthly roll-up *)

\* 2024-06-29: the frame spans the turn of the month
MonthFirst == 19903
MonthDays == 4

\* daily precipitation cells around the 1.0 mm limit, tenths of a mm
RainCells == {NaN, <<0>>, <<5>>, <<10>>, <<20>>}

InitMonthly ==
    /\ pc = "monthly_ready"
    /\ daily \in UNION {FramesFrom({"precip_sum_api"}, MonthFirst, n, RainCells) :
                          n \in 0..MonthDays}
                 \cup FramesFrom({"t_max_api"}, MonthFirst, 2, HeatCells)
    /\ args = <<>>
    /\ out = <<>>
    /\ SamplerIdle /\ AggIdle
    /\ StoreIdle

\* pages/5_Hazelnut_Guide.py lines 163-168: an exception raised by the call ends
\* the script run, nothing after it is computed
BuildMonthlyGuide ==
    /\ pc = "monthly_ready"
    /\ out' = IF FrameEmpty(daily)
              THEN [warning |-> TRUE, raised |-> "", monthly |-> EmptyFrame]
              ELSE LET r == monthly_from_daily(daily)
                   IN  [warning |-> FALSE, raised |-> r.raised, monthly |-> r.frame]
    /\ pc' = "monthly_done"
    /\ UNCHANGED <<daily, args, samplerVars, aggVars, storeVars>>

NextMonthly == BuildMonthlyGuide

SpecMonthly == InitMonthly /\ [][NextMonthly]_vars

\* the days of month m with a precipitation value
WetDryDaysOf(m) ==
    {t \in Range(daily.idx) : MonthLabel(t) = m /\ ~IsNaN(PrOf(t))}

(* C5: in the monthly roll-up of a daily frame with precipitation, every   *)
(* month's rainy_days is the number of its days with precipitation         *)
(* strictly above 1.0 mm and dry_days the number strictly below 1.0 mm; a  *)
(* day at exactly 1.0 mm or with missing precipitation counts in neither.  *)
C5_RainyDryDays ==
    (pc = "monthly_done" /\ ~out.warning
        /\ GetCol(daily, "precip_sum_api", "precipitation_sum") # "") =>
        /\ out.raised = ""
        /\ {"rainy_days", "dry_days"} \subseteq Columns(out.monthly)
        /\ \A m \in {MonthLabel(t) : t \in Range(daily.idx)} :
              /\ m \in Range(out.monthly.idx)
              /\ out.monthly.col["rainy_days"][m] =
                    <<Cardinality({t \in WetDryDaysOf(m) : Num(PrOf(t)) > 10})>>
              /\ out.monthly.col["dry_days"][m] =
                    <<Cardinality({t \in WetDryDaysOf(m) : Num(PrOf(t)) < 10})>>

\* the roll-up columns fed by each kind of source column
PrecipRollups == {"precip_total", "rainy_days", "dry_days"}
TmaxRollups == {"tmax_mean", "heat_days_32C", "heat_days_35C"}
TminRollups == {"tmin_mean", "frost_days_0C", "frost_days_-2C"}

(* C24: the monthly roll-up of a non-empty daily frame is produced with    *)
(* one row per distinct calendar month of the input labelled YYYY-MM, and  *)
(* a roll-up column is present only if the input has its source column:    *)
(* precip_total, rainy_days and dry_days need a precipitation column, the  *)
(* temperature means and heat / frost counts the max / min temperature     *)
(* columns, sunny_days a sunny flag or a weather code.                     *)
C24_ColumnsFollowSources ==
    (pc = "monthly_done" /\ ~out.warning) =>
        /\ out.raised = ""
        /\ out.monthly.idx = MonthsOf(daily)
        /\ GetCol(daily, "precip_sum_api", "precipitation_sum") = ""
              => Columns(out.monthly) \cap PrecipRollups = {}
        /\ GetCol(daily, "t_max_api", "temperature_2m_max") = ""
              => Columns(out.monthly) \cap TmaxRollups = {}
        /\ GetCol(daily, "t_min_api", "temperature_2m_min") = ""
              => Columns(out.monthly) \cap TminRollups = {}
        /\ GetCol(daily, "sunny", "weathercode") = ""
              => "sunny_days" \notin Columns(out.monthly)

\* the count held by roll-up column c for month m
RollupCount(c, m) == Num(out.monthly.col[c][m])

\* the daily records of month m
DaysOfMonth(m) == {t \in Range(daily.idx) : MonthLabel(t) = m}

------------------------------------------------------------------------------
(* Drought heuristic: lib/data_sources.py lines 176-180 *)

\* monthly_df.get(name, pd.Series([0]*len(monthly_df))): a missing column reads as 0
GetOrZero(d, c, m) == IF c \in Columns(d) THEN d.col[c][m] ELSE <<0>>

DroughtLikeNonStrict(pt, dd) ==
    (~IsNaN(pt) /\ Num(pt) <= 300) /\ (~IsNaN(dd) /\ Num(dd) >= 20)

\* (pt < 30.0) & (dd > 20), a comparison with NaN being False
DroughtLike(pt, dd) ==
    (~IsNaN(pt) /\ Num(pt) < 300) /\ (~IsNaN(dd) /\ Num(dd) > 20)

drought_proxy_flags(d) ==
    IF FrameEmpty(d) THEN [idx |-> <<>>, val |-> [m \in {} |-> FALSE]]
    ELSE [idx |-> d.idx,
          val |-> [m \in Range(d.idx) |->
                     DroughtLike(GetOrZero(d, "precip_total", m),
                                 GetOrZero(d, "dry_days", m))]]

------------------------------------------------------------------------------
(* Input domains of the drought heuristic *)

MaxMonths == 2

\* monthly precipitation totals (tenths of a mm) and dry-day counts around the limits
TotalCells == {NaN, <<200>>, <<300>>, <<500>>}
DryDayCells == {<<0>>, <<20>>, <<21>>, <<25>>}

\* month labels 2024-06, 2024-07, ...
MonthlyIndex(n) == [i \in 1..n |-> 202405 + i]

MonthlyFrames ==
    UNION {
        {[idx |-> MonthlyIndex(n),
          col |-> [c \in {"precip_total", "dry_days"} |->
                     [m \in Range(MonthlyIndex(n)) |->
                        IF c = "precip_total" THEN r[m][1] ELSE r[m][2]]]] :
            r \in [Range(MonthlyIndex(n)) -> TotalCells \X DryDayCells]}
        \cup
        {[idx |-> MonthlyIndex(n),
          col |-> [c \in {"dry_days"} |-> [m \in Range(MonthlyIndex(n)) |-> r[m]]]] :
            r \in [Range(MonthlyIndex(n)) -> DryDayCells]}
        : n \in 0..MaxMonths}

InitDrought ==
    /\ pc = "flags_ready"
    /\ args \in [monthly_df : MonthlyFrames]
    /\ daily = <<>>
    /\ out = <<>>
    /\ SamplerIdle /\ AggIdle
    /\ StoreIdle

\* dr = drought_proxy_flags(monthly)  (pages/5_Hazelnut_Guide.py line 187)
FlagDroughtMonths ==
    /\ pc = "flags_ready"
    /\ out' = [dr |-> drought_proxy_flags(args.monthly_df)]
    /\ pc' = "flags_done"
    /\ UNCHANGED <<daily, args, samplerVars, aggVars, storeVars>>

NextDrought == FlagDroughtMonths

SpecDrought == InitDrought /\ [][NextDrought]_vars

(* C9: a month that has a precip_total and a dry_days value is flagged     *)
(* drought-like iff its precip_total is strictly below 30 mm and its       *)
(* dry_days count strictly above 20.                                       *)
C9_DroughtFlags ==
    (pc = "flags_done" /\ {"precip_total", "dry_days"} \subseteq Columns(args.monthly_df)) =>
        /\ out.dr.idx = args.monthly_df.idx
        /\ \A m \in Range(args.monthly_df.idx) :
              LET pt == args.monthly_df.col["precip_total"][m]
                  dd == args.monthly_df.col["dry_days"][m]
              IN  out.dr.val[m] <=>
                     (~IsNaN(pt) /\ Num(pt) < 300 /\ ~IsNaN(dd) /\ Num(dd) > 20)

\* the spec's examples: 20 mm with 25 dry days is flagged; exactly 30 mm with
\* 25 dry days is not
C9_Witness ==
    /\ pc = "flags_done"
    /\ "precip_total" \in Columns(args.monthly_df)
    /\ \E m \in Range(out.dr.idx) :
          /\ args.monthly_df.col["precip_total"][m] = <<200>>
          /\ args.monthly_df.col["dry_days"][m] = <<25>>
          /\ out.dr.val[m]
    /\ \E m \in Range(out.dr.idx) :
          /\ args.monthly_df.col["precip_total"][m] = <<300>>
          /\ args.monthly_df.col["dry_days"][m] = <<25>>
          /\ ~out.dr.val[m]

------------------------------------------------------------------------------
(* Per-point fetches of the polygon flows.  Each flow fetches the archive  *)
(* for every sampled point in turn (fetch_openmeteo_archive raises on a    *)
(* timeout or a non-2xx answer, lib/data_sources.py line 37) and then       *)
(* averages the frames it collected.  args is the flow and its number of   *)
(* points; out records the position of the loop, the points whose frame    *)
(* was kept, the messages shown and the number of requests per point.      *)

MaxFetchPoints == 4

PolygonFlows == {"weather", "gdd", "alerts", "hazelnut"}

\* the flows whose loop calls fetch_openmeteo_archive with no try/except
Unguarded(flow) == flow \in {"weather", "gdd", "alerts"}

InitFetch ==
    /\ pc = "fetching"
    /\ args \in [flow : PolygonFlows, n : 1..MaxFetchPoints]
    /\ out = [next |-> 1, frames |-> <<>>, messages |-> <<>>, failed |-> {},
              requests |-> <<>>, aggregated_from |-> <<>>]
    /\ daily = <<>>
    /\ SamplerIdle /\ AggIdle
    /\ StoreIdle

\* the request for the next point returns a payload; its frame is appended
FetchReturns ==
    /\ pc = "fetching" /\ out.next <= args.n
    /\ out' = [out EXCEPT !.next = @ + 1,
                          !.frames = Append(@, out.next),
                          !.requests = Append(@, out.next)]
    /\ UNCHANGED <<pc, args, daily, samplerVars, aggVars, storeVars>>

\* the request for the next point raises.  Weather (lines 113-126), GDD (lines
\* 59-65) and alerts (lines 124-139): the exception leaves the script, which
\* Streamlit reports once.  Hazelnut Guide (lines 107-112, 141-144): the helper
\* catches it, shows st.error for the point, returns an empty frame, and the
\* loop goes on to the next point.
FetchRaises ==
    /\ pc = "fetching" /\ out.next <= args.n
    /\ IF Unguarded(args.flow)
       THEN /\ out' = [out EXCEPT !.failed = @ \cup {out.next},
                                  !.requests = Append(@, out.next),
                                  !.messages = Append(@, "uncaught exception")]
            /\ pc' = "aborted"
       ELSE /\ out' = [out EXCEPT !.next = @ + 1,
                                  !.failed = @ \cup {out.next},
                                  !.requests = Append(@, out.next),
                                  !.messages = Append(@, "Archive fetch failed at point")]
            /\ pc' = pc
    /\ UNCHANGED <<args, daily, samplerVars, aggVars, storeVars>>

\* after the loop: the Hazelnut Guide stops with a warning when no frame was
\* kept (lines 146-148); otherwise every flow averages the frames it has
AggregateFetched ==
    /\ pc = "fetching" /\ out.next > args.n
    /\ IF out.frames = <<>>
       THEN /\ out' = [out EXCEPT !.messages = Append(@, "No daily data returned")]
            /\ pc' = "stopped"
       ELSE /\ out' = [out EXCEPT !.aggregated_from = out.frames]
            /\ pc' = "fetch_aggregated"
    /\ UNCHANGED <<args, daily, samplerVars, aggVars, storeVars>>

NextFetch == FetchReturns \/ FetchRaises \/ AggregateFetched

SpecFetch == InitFetch /\ [][NextFetch]_vars

(* C15: in every polygon flow, once a per-point fetch has failed the       *)
(* action is aborted: no aggregate is computed from the points that        *)
(* succeeded, no further point is fetched, exactly one message is shown,   *)
(* and no point is requested twice.                                        *)
C15_FetchFailureAborts ==
    out.failed # {} =>
        /\ pc = "aborted"
        /\ out.aggregated_from = <<>>
        /\ Len(out.messages) = 1
        /\ \A p \in 1..args.n :
              Cardinality({k \in DOMAIN out.requests : out.requests[k] = p}) <= 1

------------------------------------------------------------------------------
(* Field Store: lib/geoutils.py lines 53-74.                               *)
(* A mapping (the dict json.load returns) is a sequence of <<name, geom>>  *)
(* pairs with distinct names, in insertion order.  The text of the file is *)
(* a sequence of tokens: "{", one token per entry, "}".                    *)

Keys(m) == {m[i][1] : i \in DOMAIN m}

\* data[name]
Lookup(m, name) == m[CHOOSE i \in DOMAIN m : m[i][1] = name][2]

\* data[name] = geom: an existing key keeps its place, a new key goes last
Put(m, name, g) ==
    IF name \in Keys(m)
    THEN [i \in DOMAIN m |-> IF m[i][1] = name THEN <<name, g>> ELSE m[i]]
    ELSE Append(m, <<name, g>>)

\* del data[name] / data.pop(name)
Remove(m, name) == SelectSeq(m, LAMBDA e : e[1] # name)

OpenBrace == [t |-> "{", entry |-> <<>>]
CloseBrace == [t |-> "}", entry |-> <<>>]

\* json.dump(data, f, ...): the text of a mapping
JsonDump(m) == <<OpenBrace>> \o [i \in DOMAIN m |-> [t |-> "entry", entry |-> m[i]]] \o <<CloseBrace>>

\* json.load accepts a text only if it is one complete document
WellFormed(text) ==
    /\ Len(text) >= 2
    /\ text[1] = OpenBrace /\ text[Len(text)] = CloseBrace
    /\ \A i \in 2..(Len(text) - 1) : text[i].t = "entry"

\* the mapping of a complete document
JsonLoad(text) == [i \in 1..(Len(text) - 2) |-> text[i + 1].entry]

\* load_orchards: {} when the file does not exist or json.load raises
load_orchards(f) ==
    IF ~f.exists THEN <<>>
    ELSE IF WellFormed(f.text) THEN JsonLoad(f.text) ELSE <<>>

\* open(ORCH_FILE, "w"): the file is created or cut to length 0
OpenForWrite(f) == [exists |-> TRUE, text |-> <<>>]

\* a write through a handle opened with "w", whose offset is 0: the text is
\* laid over the start of the file, what lies beyond it stays
WriteFromStart(f, text) ==
    [exists |-> TRUE, text |-> text \o SubSeq(f.text, Len(text) + 1, Len(f.text))]

\* the change add_orchard / delete_orchard / rename_orchard makes to the loaded dict
ApplyOp(op, m) ==
    CASE op.f = "add" -> Put(m, op.name, op.geom)
      [] op.f = "delete" -> IF op.name \in Keys(m) THEN Remove(m, op.name) ELSE m
      [] op.f = "rename" -> IF op.name \in Keys(m)
                            THEN Put(Remove(m, op.name), op.new, Lookup(m, op.name))
                            ELSE m

\* whether the operation calls save_orchards (lines 66, 70, 74)
Saves(op, m) == op.f = "add" \/ op.name \in Keys(m)

------------------------------------------------------------------------------
(* Field Store updates step by step.  An update is a load, a change of the *)
(* loaded dict and, in save_orchards, an open that cuts the file to length *)
(* 0 followed by the write of the new text; nothing makes the three one    *)
(* step.  sess.proc is each session's position, sess.acceptable the        *)
(* mappings an all-or-nothing store could hold, sess.last_saved the        *)
(* mapping of the latest completed write.                                  *)

MaxStoreOps == 3

StoreNames == {"a", "b"}
StoreGeoms == {"P1", "P2"}

StoreOps ==
    [f : {"add"}, name : StoreNames, geom : StoreGeoms]
    \cup [f : {"delete"}, name : StoreNames]
    \cup {op \in [f : {"rename"}, name : StoreNames, new : StoreNames] : op.name # op.new}

\* the file before the session starts: absent, or holding one field
InitialFiles ==
    {[exists |-> FALSE, text |-> <<>>],
     [exists |-> TRUE, text |-> JsonDump(<<<<"a", "P1">>>>)]}

IdleProc == [pc |-> "idle", op |-> <<>>, data |-> <<>>]

InitStore(sessions) ==
    /\ pc = "store"
    /\ store \in InitialFiles
    /\ sess = [proc |-> [s \in sessions |-> IdleProc],
               ops |-> 0,
               acceptable |-> {load_orchards(store)},
               last_saved |-> load_orchards(store)]
    /\ SamplerIdle /\ AggIdle /\ DailyIdle

Applied(op) == {ApplyOp(op, m) : m \in sess.acceptable}

\* data = load_orchards(); the change of data; the decision to save
StartOp ==
    /\ sess.ops < MaxStoreOps
    /\ \E s \in DOMAIN sess.proc, op \in StoreOps :
          /\ sess.proc[s].pc = "idle"
          /\ LET m == load_orchards(store)
             IN  sess' = IF Saves(op, m)
                         THEN [sess EXCEPT !.ops = @ + 1,
                                           !.proc[s] = [pc |-> "save_open", op |-> op,
                                                        data |-> ApplyOp(op, m)]]
                         ELSE [sess EXCEPT !.ops = @ + 1, !.acceptable = Applied(op)]
    /\ UNCHANGED <<pc, store, samplerVars, aggVars, dailyVars>>

\* save_orchards, line 62: open(ORCH_FILE, "w")
SaveOpen ==
    /\ \E s \in DOMAIN sess.proc :
          /\ sess.proc[s].pc = "save_open"
          /\ store' = OpenForWrite(store)
          /\ sess' = [sess EXCEPT !.proc[s].pc = "save_write"]
    /\ UNCHANGED <<pc, samplerVars, aggVars, dailyVars>>

\* save_orchards, line 63 and the close of the with block: the text is written
SaveWrite ==
    /\ \E s \in DOMAIN sess.proc :
          /\ sess.proc[s].pc = "save_write"
          /\ store' = WriteFromStart(store, JsonDump(sess.proc[s].data))
          /\ sess' = [sess EXCEPT !.proc[s] = IdleProc,
                                  !.acceptable = Applied(sess.proc[s].op),
                                  !.last_saved = sess.proc[s].data]
    /\ UNCHANGED <<pc, samplerVars, aggVars, dailyVars>>

\* line 62 raises (no permission, no space): the file is as it was
SaveOpenFails ==
    /\ \E s \in DOMAIN sess.proc :
          /\ sess.proc[s].pc = "save_open"
          /\ sess' = [sess EXCEPT !.proc[s] = IdleProc,
                                  !.acceptable = @ \cup Applied(sess.proc[s].op)]
    /\ UNCHANGED <<pc, store, samplerVars, aggVars, dailyVars>>

\* the write stops part-way (json.dump raises, the disk fills, the process
\* is killed): a proper prefix of the text is in the file
SaveInterrupted ==
    /\ \E s \in DOMAIN sess.proc :
          /\ sess.proc[s].pc = "save_write"
          /\ \E k \in 0..(Len(JsonDump(sess.proc[s].data)) - 1) :
                store' = WriteFromStart(store, SubSeq(JsonDump(sess.proc[s].data), 1, k))
          /\ sess' = [sess EXCEPT !.proc[s] = IdleProc,
                                  !.acceptable = @ \cup Applied(sess.proc[s].op)]
    /\ UNCHANGED <<pc, samplerVars, aggVars, dailyVars>>

InitStoreCrash == InitStore({1})

NextStoreCrash == StartOp \/ SaveOpen \/ SaveWrite \/ SaveOpenFails \/ SaveInterrupted

\* one session whose saves may fail
SpecStoreCrash == InitStoreCrash /\ [][NextStoreCrash]_vars

AllIdle == \A s \in DOMAIN sess.proc : sess.proc[s].pc = "idle"

(* C16: a Field Store write replaces the whole document or nothing: after  *)
(* saves that failed or were interrupted, load_orchards returns the        *)
(* complete mapping from before the write or the complete new one, and the *)
(* later updates carry all earlier fields along: the stored mapping is     *)
(* always one that all-or-nothing writes could have produced.              *)
C16_AtomicReplace ==
    AllIdle => load_orchards(store) \in sess.acceptable

------------------------------------------------------------------------------
(* Field Store updates one after the other, every save completing.         *)
(* sess.op is the latest call and sess.before the mapping stored before it. *)

\* save_orchards carried through: the file holds exactly the new text
save_orchards(f, data) == WriteFromStart(OpenForWrite(f), JsonDump(data))

\* add_orchard / delete_orchard / rename_orchard as a whole
UpdateStore(f, op) ==
    LET data == load_orchards(f)
    IN  IF Saves(op, data) THEN save_orchards(f, ApplyOp(op, data)) ELSE f

InitStoreOps ==
    /\ pc = "store"
    /\ store \in InitialFiles
    /\ sess = [op |-> [f |-> "none"], before |-> load_orchards(store), ops |-> 0]
    /\ SamplerIdle /\ AggIdle /\ DailyIdle

CallUpdate(op) ==
    /\ sess.ops < MaxStoreOps
    /\ store' = UpdateStore(store, op)
    /\ sess' = [op |-> op, before |-> load_orchards(store), ops |-> sess.ops + 1]
    /\ UNCHANGED <<pc, samplerVars, aggVars, dailyVars>>

AddOrchard == \E op \in StoreOps : op.f = "add" /\ CallUpdate(op)
DeleteOrchard == \E op \in StoreOps : op.f = "delete" /\ CallUpdate(op)
RenameOrchard == \E op \in StoreOps : op.f = "rename" /\ CallUpdate(op)

NextStoreOps == AddOrchard \/ DeleteOrchard \/ RenameOrchard

SpecStoreOps == InitStoreOps /\ [][NextStoreOps]_vars

\* name k is stored after the call with the polygon it had before
KeepsField(k) ==
    /\ k \in Keys(load_orchards(store))
    /\ Lookup(load_orchards(store), k) = Lookup(sess.before, k)

(* C17: over any sequence of add, rename and delete, names stay unique     *)
(* keys and a stored polygon goes away only by a delete of its name:       *)
(* add(name, g) and rename(old, new) leave the polygon of every other      *)
(* stored name in place (rename moves old's polygon to new), delete(name)  *)
(* removes only name, and rename or delete of an absent name changes       *)
(* nothing.                                                                *)
C17_OnlyDeleteRemoves ==
    LET now == load_orchards(store)
        op == sess.op
    IN  /\ \A i, j \in DOMAIN now : now[i][1] = now[j][1] => i = j
        /\ op.f = "add" =>
              /\ \A k \in Keys(sess.before) \ {op.name} : KeepsField(k)
              /\ op.name \in Keys(now) /\ Lookup(now, op.name) = op.geom
        /\ op.f = "delete" =>
              /\ \A k \in Keys(sess.before) \ {op.name} : KeepsField(k)
              /\ op.name \notin Keys(now)
              /\ op.name \notin Keys(sess.before) => now = sess.before
        /\ op.f = "rename" =>
              IF op.name \in Keys(sess.before)
              THEN /\ \A k \in Keys(sess.before) \ {op.name} : KeepsField(k)
                   /\ op.name \notin Keys(now)
              ELSE now = sess.before

------------------------------------------------------------------------------
(* GeoJSON export and import: pages/2_Fields_Manager.py lines 48-70.       *)
(* A JSON value is [kind, f]: kind is "object", "array" or "null", f the   *)
(* members of an object.  A coordinate is a number of thousandths of a     *)
(* degree.  In a JSON text the coordinates are strings of characters, as   *)
(* json.dumps writes them with float.__repr__: the shortest decimal that   *)
(* reads back as the same number, never without a fractional digit.        *)

JsonObject(fields) == [kind |-> "object", f |-> fields]
JsonNull == [kind |-> "null", f |-> <<>>]
JsonArray == [kind |-> "array", f |-> <<>>]

\* v.get(k, default) on a dict
Get(v, k, default) == IF k \in DOMAIN v.f THEN v.f[k] ELSE default

DigitChars == <<"0", "1", "2", "3", "4", "5", "6", "7", "8", "9">>
DigitChar(d) == DigitChars[d + 1]
DigitVal(c) == CHOOSE d \in 0..9 : DigitChars[d + 1] = c

RECURSIVE Digits(_)
\* the decimal digits of a natural number
Digits(n) == IF n < 10 THEN <<DigitChar(n)>> ELSE Append(Digits(n \div 10), DigitChar(n % 10))

RECURSIVE DigitsValue(_)
DigitsValue(cs) ==
    IF cs = <<>> THEN 0
    ELSE 10 * DigitsValue(SubSeq(cs, 1, Len(cs) - 1)) + DigitVal(cs[Len(cs)])

\* the fractional digits of r thousandths, without trailing zeros, at least one
FracDigits(r) ==
    IF r % 100 = 0 THEN <<DigitChar(r \div 100)>>
    ELSE IF r % 10 = 0 THEN <<DigitChar(r \div 100), DigitChar((r \div 10) % 10)>>
    ELSE <<DigitChar(r \div 100), DigitChar((r \div 10) % 10), DigitChar(r % 10)>>

Abs(x) == IF x < 0 THEN -x ELSE x

FormatNumberOneDecimal(x) ==
    (IF x < 0 THEN <<"-">> ELSE <<>>)
        \o Digits(Abs(x) \div 1000) \o <<".">> \o <<DigitChar((Abs(x) % 1000) \div 100)>>

\* float.__repr__ of x thousandths
FormatNumber(x) ==
    (IF x < 0 THEN <<"-">> ELSE <<>>)
        \o Digits(Abs(x) \div 1000) \o <<".">> \o FracDigits(Abs(x) % 1000)

\* float(text)
ParseNumber(cs) ==
    LET neg == cs[1] = "-"
        body == IF neg THEN Tail(cs) ELSE cs
        dot == CHOOSE i \in DOMAIN body : body[i] = "."
        whole == DigitsValue(SubSeq(body, 1, dot - 1))
        frac == SubSeq(body, dot + 1, Len(body))
        scale == IF Len(frac) = 1 THEN 100 ELSE IF Len(frac) = 2 THEN 10 ELSE 1
        mag == 1000 * whole + scale * DigitsValue(frac)
    IN  IF neg THEN -mag ELSE mag

\* the coordinates member: a list of rings, each a list of [lon, lat]
FormatRings(rings) ==
    [r \in DOMAIN rings |->
        [i \in DOMAIN rings[r] |->
            <<FormatNumber(rings[r][i][1]), FormatNumber(rings[r][i][2])>>]]

ParseRings(rings) ==
    [r \in DOMAIN rings |->
        [i \in DOMAIN rings[r] |->
            <<ParseNumber(rings[r][i][1]), ParseNumber(rings[r][i][2])>>]]

\* json.dumps / json.load on the members of a geometry: member order and
\* member names are kept, numbers are written out and read back
DumpMembers(v) ==
    [kind |-> v.kind,
     f |-> [k \in DOMAIN v.f |->
              IF k = "coordinates" THEN FormatRings(v.f[k]) ELSE v.f[k]]]

LoadMembers(t) ==
    [kind |-> t.kind,
     f |-> [k \in DOMAIN t.f |->
              IF k = "coordinates" THEN ParseRings(t.f[k]) ELSE t.f[k]]]

\* json.dumps(value): a value is a geometry or a Feature holding one
JsonDumps(v) ==
    [kind |-> v.kind,
     f |-> [k \in DOMAIN v.f |->
              IF k = "geometry" THEN DumpMembers(v.f[k])
              ELSE IF k = "coordinates" THEN FormatRings(v.f[k]) ELSE v.f[k]]]

\* json.loads(text)
JsonLoads(t) ==
    [kind |-> t.kind,
     f |-> [k \in DOMAIN t.f |->
              IF k = "geometry" THEN LoadMembers(t.f[k])
              ELSE IF k = "coordinates" THEN ParseRings(t.f[k]) ELSE t.f[k]]]

\* the file text of a mapping of geometries, and back
DumpFields(m) == [i \in DOMAIN m |-> <<m[i][1], JsonDumps(m[i][2])>>]
LoadFields(m) == [i \in DOMAIN m |-> <<m[i][1], JsonLoads(m[i][2])>>]

\* load_orchards / add_orchard on a file whose geometries are JSON texts
LoadGeoms(f) == LoadFields(load_orchards(f))
AddGeom(f, name, g) == save_orchards(f, DumpFields(Put(LoadGeoms(f), name, g)))

GeometryOfBare(v) == v

\* lines 59-60: a Feature is replaced by its geometry member, {} when it has none
GeometryOf(v) ==
    IF Get(v, "type", "None") = "Feature" THEN Get(v, "geometry", JsonObject(<<>>)) ELSE v

\* lines 56-70 up to the decision: the geometry to save, or the error shown.
\* json.load raises on a text that is no JSON document; .get raises
\* AttributeError on a value that is no dict (an array, null); both are
\* caught by line 69.
import_geojson(doc) ==
    IF ~doc.valid THEN [error |-> "Invalid GeoJSON", geom |-> JsonNull]
    ELSE LET v == JsonLoads(doc.tree)
         IN  IF v.kind # "object" THEN [error |-> "Invalid GeoJSON", geom |-> JsonNull]
             ELSE LET g == GeometryOf(v)
                  IN  IF g.kind # "object"
                      THEN [error |-> "Invalid GeoJSON", geom |-> JsonNull]
                      ELSE IF Get(g, "type", "None") # "Polygon"
                      THEN [error |-> "Expected Polygon geometry", geom |-> JsonNull]
                      ELSE [error |-> "", geom |-> g]

------------------------------------------------------------------------------
(* Input domains of export and import *)

MaxImports == 2

\* [lon, lat] as written in the file: 38.387, 40.916; 38.4, 41.0; -0.5, 40.05
ImportVertices ==
    {<<<<"3", "8", ".", "3", "8", "7">>, <<"4", "0", ".", "9", "1", "6">>>>,
     <<<<"3", "8", ".", "4">>, <<"4", "1", ".", "0">>>>,
     <<<<"-", "0", ".", "5">>, <<"4", "0", ".", "0", "5">>>>}

\* closed rings of three vertices starting at the first of them
ImportRings ==
    {<<r[1], r[2], r[3], r[1]>> :
        r \in {q \in [1..3 -> ImportVertices] :
                  q[1] = <<<<"3", "8", ".", "3", "8", "7">>, <<"4", "0", ".", "9", "1", "6">>>>}}

Polygon(ring) == JsonObject([type |-> "Polygon", coordinates |-> <<ring>>])
MultiLine(ring) == JsonObject([type |-> "MultiLineString", coordinates |-> <<ring>>])
Feature(g) == JsonObject([type |-> "Feature", geometry |-> g])

UploadRings ==
    {<<<<38387, 40916>>, <<38400, 41000>>, <<-500, 40050>>, <<38387, 40916>>>>,
     <<<<-500, 40050>>, <<38400, 41000>>, <<38387, 40916>>, <<-500, 40050>>>>}

\* the documents a user uploads, as texts; valid is FALSE for a file that is
\* no JSON document
UploadDocs ==
    {[valid |-> TRUE, tree |-> JsonDumps(v)] :
        v \in {Polygon(r) : r \in UploadRings}
               \cup {Feature(Polygon(r)) : r \in UploadRings}
               \cup {MultiLine(r) : r \in UploadRings}
               \cup {Feature(MultiLine(r)) : r \in UploadRings}
               \cup {Feature(JsonNull), JsonObject([type |-> "Feature"]),
                      JsonObject([name |-> "untyped"]), JsonArray}}
    \cup {[valid |-> FALSE, tree |-> JsonNull]}

ImportNames == {"Imported field", "a"}

\* the file at the start: absent, or one field saved earlier
ImportFiles ==
    {[exists |-> FALSE, text |-> <<>>]}
    \cup {save_orchards([exists |-> FALSE, text |-> <<>>], <<<<"a", Polygon(r)>>>>) :
             r \in ImportRings}

InitImport ==
    /\ pc = "fields"
    /\ store \in ImportFiles
    /\ sess = [last |-> "none", steps |-> 0, has_download |-> FALSE,
               download |-> JsonNull, exported |-> JsonNull, reimport |-> FALSE,
               upload |-> [valid |-> FALSE, tree |-> JsonNull],
               name2 |-> "", error |-> "", before |-> store]
    /\ SamplerIdle /\ AggIdle /\ DailyIdle

\* lines 49-50: the selected field's geometry is offered as a .geojson text
DownloadGeoJSON ==
    /\ sess.steps < MaxImports
    /\ \E sel_name \in Keys(LoadGeoms(store)) :
          sess' = [sess EXCEPT !.last = "download", !.steps = @ + 1,
                               !.has_download = TRUE,
                               !.download = JsonDumps(Lookup(LoadGeoms(store), sel_name)),
                               !.exported = Lookup(LoadGeoms(store), sel_name)]
    /\ UNCHANGED <<pc, store, samplerVars, aggVars, dailyVars>>

\* lines 54-70 with "Save Imported Field" pressed
ImportDocument(doc, name2, again) ==
    /\ store' = IF import_geojson(doc).error = ""
                THEN AddGeom(store, name2, import_geojson(doc).geom)
                ELSE store
    /\ sess' = [sess EXCEPT !.last = "import", !.steps = @ + 1, !.reimport = again,
                            !.upload = doc, !.name2 = name2,
                            !.error = import_geojson(doc).error, !.before = store]
    /\ UNCHANGED <<pc, samplerVars, aggVars, dailyVars>>

ImportUploaded ==
    /\ sess.steps < MaxImports
    /\ \E doc \in UploadDocs, name2 \in ImportNames : ImportDocument(doc, name2, FALSE)

\* the downloaded text is uploaded again
ImportDownloaded ==
    /\ sess.steps < MaxImports
    /\ sess.has_download
    /\ \E name2 \in ImportNames :
          ImportDocument([valid |-> TRUE, tree |-> sess.download], name2, TRUE)

NextImport == DownloadGeoJSON \/ ImportUploaded \/ ImportDownloaded

SpecImport == InitImport /\ [][NextImport]_vars

(* C18: a stored field's polygon exported as GeoJSON, imported again and   *)
(* saved is stored with a coordinate ring identical to the original: the   *)
(* same vertices in the same order with the same [lon, lat] values.        *)
C18_ExportImportRoundTrip ==
    (sess.last = "import" /\ sess.reimport) =>
        /\ sess.error = ""
        /\ sess.name2 \in Keys(LoadGeoms(store))
        /\ Get(Lookup(LoadGeoms(store), sess.name2), "coordinates", <<>>)
              = Get(sess.exported, "coordinates", <<>>)

\* a ring with a negative coordinate, a coordinate with three decimals and one
\* with none, exported from field a and stored again under another name
C18_Witness ==
    /\ sess.last = "import" /\ sess.reimport
    /\ sess.name2 = "Imported field"
    /\ Keys(LoadGeoms(store)) = {"a", "Imported field"}
    /\ Lookup(LoadGeoms(store), "Imported field") = Lookup(LoadGeoms(store), "a")
    /\ \E i \in 1..4 :
          Get(sess.exported, "coordinates", <<>>)[1][i] = <<-500, 40050>>
    /\ \E i \in 1..4 :
          Get(sess.exported, "coordinates", <<>>)[1][i] = <<38400, 41000>>
    /\ sess.download.f["coordinates"][1][1] =
          <<<<"3", "8", ".", "3", "8", "7">>, <<"4", "0", ".", "9", "1", "6">>>>

\* the type of the geometry an uploaded document stands for: of the document
\* itself, or of the geometry member of a Feature; "None" when there is none
UploadedType(doc) ==
    IF ~doc.valid \/ doc.tree.kind # "object" THEN "None"
    ELSE IF Get(doc.tree, "type", "None") # "Feature" THEN Get(doc.tree, "type", "None")
    ELSE IF "geometry" \notin DOMAIN doc.tree.f THEN "None"
    ELSE IF doc.tree.f["geometry"].kind # "object" THEN "None"
    ELSE Get(doc.tree.f["geometry"], "type", "None")

(* C19: the import takes a bare geometry or a Feature (whose geometry      *)
(* member it uses) and saves it exactly when the resulting geometry's type *)
(* is Polygon; for any other type, a Feature without geometry included, an *)
(* error is shown and the Field Store stays as it was.                     *)
C19_ImportPolygonOnly ==
    sess.last = "import" =>
        IF UploadedType(sess.upload) = "Polygon"
        THEN /\ sess.error = ""
             /\ sess.name2 \in Keys(LoadGeoms(store))
             /\ Get(Lookup(LoadGeoms(store), sess.name2), "type", "None") = "Polygon"
             /\ JsonDumps(Lookup(LoadGeoms(store), sess.name2))
                   = (IF Get(sess.upload.tree, "type", "None") = "Feature"
                      THEN sess.upload.tree.f["geometry"] ELSE sess.upload.tree)
        ELSE /\ sess.error # ""
             /\ store = sess.before

\* a Polygon was saved, and after it a Feature without a geometry member was
\* refused with the store left as it was
C19_Witness ==
    /\ sess.last = "import"
    /\ sess.upload = [valid |-> TRUE, tree |-> JsonObject([type |-> "Feature"])]
    /\ sess.error = "Expected Polygon geometry"
    /\ store = sess.before
    /\ "Imported field" \in Keys(LoadGeoms(store))

------------------------------------------------------------------------------
(* Two sessions updating the Field Store at the same time.  Streamlit runs *)
(* each session's script in a thread of its own and geoutils.py takes no   *)
(* lock, so the loads, opens and writes of two updates interleave freely.  *)

InitStoreRace == InitStore({1, 2})

NextStoreRace == StartOp \/ SaveOpen \/ SaveWrite

SpecStoreRace == InitStoreRace /\ [][NextStoreRace]_vars

(* C20: when two sessions update the Field Store concurrently, the mapping *)
(* persisted once both have finished is exactly the mapping written by the *)
(* save that ran last (so an update the other session saved between that   *)
(* session's load and its save is not in it).                               *)
C20_LastWriteWins ==
    AllIdle => load_orchards(store) = sess.last_saved

------------------------------------------------------------------------------
(* Area series of the polygon flows.  The Weather page hands its per-point *)
(* frames to aggregate_daily_across_points; the GDD tab, the alerts tab    *)
(* and the Hazelnut Guide align the frames themselves and take             *)
(* stacked.groupby(level=1, axis=1).mean(numeric_only=True).  The per-     *)
(* point frames carry precip_sum_api and weathercode, both numeric.        *)

\* stacked.groupby(level=1, axis=1).mean(numeric_only=True) over the aligned
\* frames of a non-empty list: one column per column name of any frame, each
\* cell the mean of the non-missing cells of that name
GroupByMean(frames) ==
    LET idx == UnionIndex(frames)
        aligned == [i \in DOMAIN frames |-> Reindex(frames[i], idx)]
        names == UNION {Columns(frames[i]) : i \in DOMAIN frames}
    IN  [idx |-> idx,
         col |-> [c \in names |->
                    [t \in Range(idx) |-> RowMean(StackedRow(aligned, c, t))]]]

\* Hazelnut Guide lines 141-144: frames that came back empty are left out
KeptFrames(flow, frames) ==
    IF flow = "hazelnut" THEN SelectSeq(frames, LAMBDA d : ~(d.idx = <<>>))
    ELSE frames

\* the area frame a flow computes from the frames it kept
AreaSeries(flow, frames) ==
    IF flow = "weather" THEN aggregate_daily_across_points(frames)
    ELSE GroupByMean(frames)

MaxFlowPoints == 2

\* one row of a per-point frame: <<precip_sum_api, weathercode>>; 3 is
\* "Overcast", 63 is "Rain: Moderate"
FlowRows == {<<NaN, NaN>>, <<<<AggUnit>>, <<3>>>>, <<<<4 * AggUnit>>, <<63>>>>}

FlowFrames ==
    {[idx |-> SortedSeq(DOMAIN r),
      col |-> [c \in {"precip_sum_api", "weathercode"} |->
                 [t \in DOMAIN r |-> IF c = "weathercode" THEN r[t][2] ELSE r[t][1]]]] :
        r \in UNION {[S -> FlowRows] : S \in SUBSET AggDays}}

InitFlows ==
    /\ pc = "flow_fetched"
    /\ args \in [flow : PolygonFlows]
    /\ dfs \in UNION {[1..n -> FlowFrames] : n \in 1..MaxFlowPoints}
    /\ agg = <<>>
    /\ daily = <<>> /\ out = <<>>
    /\ SamplerIdle /\ StoreIdle

\* Weather line 127, GDD lines 67-68, alerts lines 141-143, Hazelnut Guide
\* lines 146-154: daily is the frame handed on to the roll-ups and alerts
AggregateArea ==
    /\ pc = "flow_fetched"
    /\ KeptFrames(args.flow, dfs) # <<>>
    /\ agg' = AreaSeries(args.flow, KeptFrames(args.flow, dfs))
    /\ daily' = agg'
    /\ pc' = "flow_aggregated"
    /\ UNCHANGED <<dfs, args, out, samplerVars, storeVars>>

\* Hazelnut Guide lines 146-148: no frame kept, the script stops
StopNoFrames ==
    /\ pc = "flow_fetched"
    /\ KeptFrames(args.flow, dfs) = <<>>
    /\ pc' = "flow_stopped"
    /\ UNCHANGED <<dfs, agg, args, daily, out, samplerVars, storeVars>>

NextFlows == AggregateArea \/ StopNoFrames

SpecFlows == InitFlows /\ [][NextFlows]_vars

(* C21: in every polygon flow (Weather page, GDD, alerts, Hazelnut Guide)  *)
(* the area daily series handed on is the Series Aggregator's output over  *)
(* the per-point frames: numeric fields are means over the points and the  *)
(* weather code is the mode over the points, never a mean of code values.  *)
C21_AreaSeriesIsAggregate ==
    pc = "flow_aggregated" =>
        daily = aggregate_daily_across_points(KeptFrames(args.flow, dfs))

------------------------------------------------------------------------------
(* Column sets of the two aggregators: lib/data_sources.py lines 90-112    *)

aggregate_hourly_first_columns(frames) ==
    IF frames = <<>> THEN EmptyFrame
    ELSE [idx |-> GroupByMean(frames).idx,
          col |-> [c \in Columns(frames[1]) |-> GroupByMean(frames).col[c]]]

\* lines 106-112: every column name of the stacked frame is a group
aggregate_hourly_across_points(frames) ==
    IF frames = <<>> THEN EmptyFrame ELSE GroupByMean(frames)

MaxColumnSeries == 2

\* a frame of one timestamp holding the value v in each of its columns
OneRowFrame(cols, v) ==
    [idx |-> <<1>>, col |-> [c \in cols |-> [t \in {1} |-> <<v>>]]]

\* per-point daily frames (d_api joined with the hourly summary) and per-point
\* hourly frames with every choice of fields, and the frame of an empty payload
ColumnDailyFrames ==
    {OneRowFrame(S, 3) : S \in SUBSET {"t_max_api", "t_mean", "weathercode"}}
        \cup {EmptyFrame}

ColumnHourlyFrames ==
    {OneRowFrame(S, 3) : S \in SUBSET {"temperature_2m", "precipitation"}}
        \cup {EmptyFrame}

InitColumns ==
    /\ pc = "lists_built"
    /\ \E n \in 1..MaxColumnSeries :
          /\ dfs \in [1..n -> ColumnDailyFrames]
          /\ args \in [hourly_list : [1..n -> ColumnHourlyFrames]]
    /\ agg = <<>>
    /\ daily = <<>> /\ out = <<>>
    /\ SamplerIdle /\ StoreIdle

\* pages/1_Weather_&_Forecast.py lines 127-128
AggregateLists ==
    /\ pc = "lists_built"
    /\ agg' = aggregate_daily_across_points(dfs)
    /\ out' = [hdf_mean |-> aggregate_hourly_across_points(args.hourly_list)]
    /\ pc' = "lists_aggregated"
    /\ UNCHANGED <<dfs, args, daily, samplerVars, storeVars>>

NextColumns == AggregateLists

SpecColumns == InitColumns /\ [][NextColumns]_vars

\* the statement as the specification has it: both aggregates have exactly the
\* columns of their first input
C22_FirstInputColumns ==
    pc = "lists_aggregated" =>
        /\ Columns(agg) = Columns(dfs[1])
        /\ Columns(out.hdf_mean) = Columns(args.hourly_list[1])

(* C22: the columns of aggregate_daily's result are exactly the columns of *)
(* the first input series (a field only a later input has is absent, a     *)
(* field of the first input is present even when later inputs lack it);    *)
(* the columns of aggregate_hourly's result are the union of the columns   *)
(* of all the input series.                                                *)
C22_DailyFirstHourlyUnion ==
    pc = "lists_aggregated" =>
        /\ Columns(agg) = Columns(dfs[1])
        /\ Columns(out.hdf_mean) =
              UNION {Columns(args.hourly_list[i]) : i \in DOMAIN args.hourly_list}

\* a daily field and an hourly field that only the second input has, and a
\* field of the first input that the second lacks
C22_Witness ==
    /\ pc = "lists_aggregated" /\ Len(dfs) = 2
    /\ "t_mean" \in Columns(dfs[2]) \ Columns(dfs[1])
    /\ "t_mean" \notin Columns(agg)
    /\ "weathercode" \in Columns(dfs[1]) \ Columns(dfs[2])
    /\ "weathercode" \in Columns(agg)
    /\ "precipitation" \in Columns(args.hourly_list[2]) \ Columns(args.hourly_list[1])
    /\ "precipitation" \in Columns(out.hdf_mean)
    /\ "temperature_2m" \in Columns(args.hourly_list[1]) \ Columns(args.hourly_list[2])
    /\ "temperature_2m" \in Columns(out.hdf_mean)

------------------------------------------------------------------------------
(* GDD and the sources of min / max temperature.  The joined daily frame   *)
(* of a point holds t_min_api / t_max_api when the payload has a daily     *)
(* block and t_min_hourly / t_max_hourly when it has an hourly block       *)
(* (lib/data_sources.py lines 61-83, pages/4_Models_&_Alerts.py lines      *)
(* 49-54).                                                                 *)

\* the column sets of the joined frame: both blocks, the hourly block only,
\* the daily block only, and neither pair of extremes
GddSourceColumnSets ==
    {{"t_min_api", "t_max_api", "t_min_hourly", "t_max_hourly"},
     {"t_min_hourly", "t_max_hourly"},
     {"t_min_api", "t_max_api"},
     {"rh_mean"}}

InitGddSources ==
    /\ pc = "gdd_ready"
    /\ daily \in UNION {FramesOver(cols, n, {<<100>>, <<400>>}) :
                          <<cols, n>> \in GddSourceColumnSets \X (1..MaxGddDays)}
    /\ args \in [base_c : BaseChoices, cap_c : CapChoices]
    /\ out = <<>>
    /\ SamplerIdle /\ AggIdle
    /\ StoreIdle

SpecGddSources == InitGddSources /\ [][NextGdd]_vars

SourceExtremes(d) ==
    /\ GetCol(d, "t_min_api", "temperature_2m_min") # ""
    /\ GetCol(d, "t_max_api", "temperature_2m_max") # ""

HourlyExtremes(d) == {"t_min_hourly", "t_max_hourly"} \subseteq Columns(d)

(* C23: GDD is empty, without raising, only when neither the source's      *)
(* daily min / max temperature nor the hourly-derived t_min_hourly /       *)
(* t_max_hourly is available; when the source's extremes are absent and    *)
(* the hourly-derived ones are present, GDD is computed from the           *)
(* hourly-derived values.                                                  *)
C23_GddHourlyFallback ==
    pc = "gdd_done" =>
        /\ out.gdd = EmptySeries => (~SourceExtremes(daily) /\ ~HourlyExtremes(daily))
        /\ (~SourceExtremes(daily) /\ HourlyExtremes(daily)) =>
              out.gdd = [idx |-> daily.idx,
                         val |-> [t \in Range(daily.idx) |->
                                    GddDay(daily.col["t_min_hourly"][t],
                                           daily.col["t_max_hourly"][t],
                                           args.base_c, args.cap_c)]]

------------------------------------------------------------------------------
(* What the pages do with an offered geometry: "Save Field" and the        *)
(* GeoJSON import of pages/2_Fields_Manager.py, and the polygon drawn on   *)
(* the GDD tab of pages/4_Models_&_Alerts.py followed by "Compute GDD".    *)
(* args is the geometry and the route it takes; sess records whether the   *)
(* sampler returned points, the points fetched and the message shown.      *)

\* rings of 2 or 3 vertices from <<0, 0>>, open or closed by repeating it
GeometryRings ==
    LET open == {<<<<0, 0>>>> \o r : r \in UNION {[1..n -> Vertices] : n \in 1..2}}
    IN  open \cup {Append(r, r[1]) : r \in open}

\* nothing drawn (None), a geometry of another type, a Polygon without a
\* coordinates member, one with an empty coordinates list, and Polygons over
\* every ring
OfferedGeometries ==
    {JsonNull, JsonObject([type |-> "Polygon"]),
     JsonObject([type |-> "Polygon", coordinates |-> <<>>])}
        \cup {MultiLine(r) : r \in GeometryRings}
        \cup {Polygon(r) : r \in GeometryRings}

GeometryRoutes == {"save_field", "import", "gdd"}

\* `geom and geom.get("type") == "Polygon"`: None and {} are falsy
IsPolygonType(g) ==
    g.kind = "object" /\ DOMAIN g.f # {} /\ Get(g, "type", "None") = "Polygon"

\* geom["coordinates"][0] raises KeyError without the member and IndexError on
\* an empty list
HasRing(g) == "coordinates" \in DOMAIN g.f /\ g.f["coordinates"] # <<>>

InitGeometry ==
    /\ pc = "geometry_offered"
    /\ args \in [geom : OfferedGeometries, via : GeometryRoutes]
    /\ store = [exists |-> FALSE, text |-> <<>>]
    /\ sess = [sampled |-> FALSE, fetched |-> <<>>, message |-> ""]
    /\ daily = <<>> /\ out = <<>>
    /\ SamplerIdle /\ AggIdle

\* pages/2_Fields_Manager.py lines 22-26 with a name typed and the button pressed
SaveField ==
    /\ pc = "geometry_offered" /\ args.via = "save_field"
    /\ IF IsPolygonType(args.geom)
       THEN /\ store' = AddGeom(store, "Orchard A", args.geom)
            /\ sess' = [sess EXCEPT !.message = "Saved field"]
       ELSE UNCHANGED <<store, sess>>
    /\ pc' = "geometry_handled"
    /\ UNCHANGED <<args, daily, out, samplerVars, aggVars>>

\* pages/2_Fields_Manager.py lines 54-70 with the geometry uploaded as a file
ImportField ==
    /\ pc = "geometry_offered" /\ args.via = "import"
    /\ LET r == import_geojson([valid |-> TRUE, tree |-> JsonDumps(args.geom)])
       IN  IF r.error = ""
           THEN /\ store' = AddGeom(store, "Imported field", r.geom)
                /\ sess' = [sess EXCEPT !.message = "Imported"]
           ELSE /\ store' = store
                /\ sess' = [sess EXCEPT !.message = r.error]
    /\ pc' = "geometry_handled"
    /\ UNCHANGED <<args, daily, out, samplerVars, aggVars>>

\* pages/4_Models_&_Alerts.py lines 31-38 and 46-60: the sampler is called for
\* a geometry of type Polygon; an exception it raises is caught by line 37 and
\* leaves pts = None; "Compute GDD" then fetches the archive for every point
\* of pts, or stops with a warning when there is none
DrawAndComputeGdd ==
    /\ pc = "geometry_offered" /\ args.via = "gdd"
    /\ LET called == IsPolygonType(args.geom)
           sampled == IF called /\ HasRing(args.geom)
                      THEN sample_points_in_polygon(args.geom.f["coordinates"][1], 9)
                      ELSE <<>>
       IN  sess' = [sampled |-> sampled # <<>>,
                    fetched |-> sampled,
                    message |-> IF sampled = <<>> THEN "Please draw a polygon field."
                                ELSE "Using sampling points in polygon."]
    /\ pc' = "geometry_handled"
    /\ UNCHANGED <<args, store, daily, out, samplerVars, aggVars>>

NextGeometry == SaveField \/ ImportField \/ DrawAndComputeGdd

SpecGeometry == InitGeometry /\ [][NextGeometry]_vars

\* all entries of the ring lie on one line (so do the entries of a ring with
\* fewer than 3 distinct vertices)
Collinear(ring) ==
    \A i, j, k \in DOMAIN ring :
        (Lon(ring[j]) - Lon(ring[i])) * (Lat(ring[k]) - Lat(ring[i]))
            = (Lon(ring[k]) - Lon(ring[i])) * (Lat(ring[j]) - Lat(ring[i]))

\* a geometry the specification accepts: of type Polygon, with a coordinate
\* ring of at least 3 distinct vertices that are not collinear
ValidPolygon(g) ==
    /\ IsPolygonType(g)
    /\ HasRing(g)
    /\ Cardinality(Range(g.f["coordinates"][1])) >= 3
    /\ ~Collinear(g.f["coordinates"][1])

(* C25: a drawn or imported geometry that is missing, not of type Polygon, *)
(* malformed (no coordinate ring, fewer than 3 vertices) or degenerate     *)
(* (all vertices collinear) is rejected at once: it is never saved to the  *)
(* Field Store, and no sampling or weather fetch is attempted for it.      *)
C25_InvalidGeometryRejected ==
    (pc = "geometry_handled" /\ ~ValidPolygon(args.geom)) =>
        /\ load_orchards(store) = <<>>
        /\ ~sess.sampled
        /\ sess.fetched = <<>>

------------------------------------------------------------------------------
(* Order of the per-point requests of one "Fetch Data" action in polygon   *)
(* mode: pages/1_Weather_&_Forecast.py lines 113-128 and app.py lines      *)
(* 350-367.  The script is one thread; requests.get blocks until the       *)
(* answer is in or the call raises.  Points are numbered by their place    *)
(* in sample_pts.  out.next is the loop position, out.inflight the point   *)
(* whose request is under way (0 for none), out.issued and out.returned    *)
(* the requests sent and answered so far, in order.                        *)

FetchPages == {"weather_page", "app"}

\* what an answered request holds: daily and hourly blocks, or neither
PayloadKinds == {"blocks", "empty"}

CanIssueAlways(o) == TRUE

\* the loop body runs to its end before the next iteration starts
CanIssue(o) == o.inflight = 0

InitFetchOrder ==
    /\ pc = "order_looping"
    /\ args \in [page : FetchPages, n : 1..MaxFetchPoints]
    /\ out = [next |-> 1, inflight |-> 0, issued |-> <<>>, returned |-> <<>>,
              daily_list |-> <<>>, aggregated_from |-> <<>>]
    /\ daily = <<>>
    /\ SamplerIdle /\ AggIdle
    /\ StoreIdle

\* line 116: the next point of sample_pts is requested
IssueFetch ==
    /\ pc = "order_looping" /\ CanIssue(out) /\ out.next <= args.n
    /\ out' = [out EXCEPT !.next = @ + 1, !.inflight = out.next,
                          !.issued = Append(@, out.next)]
    /\ UNCHANGED <<pc, args, daily, samplerVars, aggVars, storeVars>>

\* lines 117-126: the answer is turned into frames and appended
FetchAnswered ==
    /\ pc = "order_looping" /\ out.inflight # 0
    /\ \E kind \in PayloadKinds :
          out' = [out EXCEPT !.inflight = 0,
                             !.returned = Append(@, out.inflight),
                             !.daily_list = Append(@, kind)]
    /\ UNCHANGED <<pc, args, daily, samplerVars, aggVars, storeVars>>

\* the request times out or is answered with an error status: the exception
\* leaves the script
FetchFails ==
    /\ pc = "order_looping" /\ out.inflight # 0
    /\ out' = [out EXCEPT !.inflight = 0]
    /\ pc' = "order_aborted"
    /\ UNCHANGED <<args, daily, samplerVars, aggVars, storeVars>>

\* lines 127-128, after the loop
AggregateAll ==
    /\ pc = "order_looping" /\ out.inflight = 0 /\ out.next > args.n
    /\ out' = [out EXCEPT !.aggregated_from = out.returned]
    /\ pc' = "order_aggregated"
    /\ UNCHANGED <<args, daily, samplerVars, aggVars, storeVars>>

NextFetchOrder == IssueFetch \/ FetchAnswered \/ FetchFails \/ AggregateAll

SpecFetchOrder == InitFetchOrder /\ [][NextFetchOrder]_vars

(* C26: in one polygon action over N sample points the historical fetch is *)
(* issued at most once per point and in sample-list order, each fetch      *)
(* starts only after the previous one returned, and aggregation starts     *)
(* only after all N fetches returned, each point fetched exactly once.     *)
C26_SequentialFetches ==
    /\ out.issued = [k \in 1..Len(out.issued) |-> k]
    /\ Len(out.issued) <= args.n
    /\ \A k \in 2..Len(out.issued) : (k - 1) \in Range(out.returned)
    /\ pc = "order_aggregated" =>
          /\ out.issued = [k \in 1..args.n |-> k]
          /\ out.returned = out.issued
          /\ out.aggregated_from = out.returned

\* four points fetched one after the other and aggregated
C26_Witness ==
    /\ pc = "order_aggregated" /\ args.n = 4
    /\ out.aggregated_from = <<1, 2, 3, 4>>
    /\ out.daily_list = <<"blocks", "empty", "blocks", "blocks">>

------------------------------------------------------------------------------
(* Daily summary of the hourly frame and its join with the source's daily  *)
(* report: lib/data_sources.py lines 70-83 and pages/1_Weather_&_Forecast  *)
(* lines 117-125.  An hourly timestamp is the number of hours since the    *)
(* epoch, a date the number of days.                                       *)

\* h.index.date: the timestamp's own calendar date
DateOf(ts) == ts \div 24

\* the non-missing cells of column c in the records of date d, in index order
GroupCells(h, c, d) ==
    LET recs == SelectSeq(h.idx, LAMBDA t : DateOf(t) = d)
    IN  Present([i \in DOMAIN recs |-> h.col[c][recs[i]]])

\* g[c].mean(), .min(), .max(): missing values are skipped, NaN for a group
\* without a value; g[c].sum() of such a group is 0
GroupMean(p) == IF p = <<>> THEN NaN ELSE <<SumSeq([i \in DOMAIN p |-> Num(p[i])]) \div Len(p)>>
GroupMin(p) == IF p = <<>> THEN NaN ELSE <<SetMin({Num(p[i]) : i \in DOMAIN p})>>
GroupMax(p) == IF p = <<>> THEN NaN ELSE <<SetMax({Num(p[i]) : i \in DOMAIN p})>>
GroupSum(p) == <<SumSeq([i \in DOMAIN p |-> Num(p[i])])>>

SummaryColumns ==
    {"t_mean", "t_min_hourly", "t_max_hourly", "rh_mean", "dewpoint_mean",
     "precip_sum_hourly", "wind_max_hourly"}

summarize_daily_from_hourly(h) ==
    IF FrameEmpty(h) THEN EmptyFrame
    ELSE LET dates == {DateOf(t) : t \in Range(h.idx)}
         IN  [idx |-> SortedSeq(dates),
              col |-> [c \in SummaryColumns |-> [d \in dates |->
                 CASE c = "t_mean" -> GroupMean(GroupCells(h, "temperature_2m", d))
                   [] c = "t_min_hourly" -> GroupMin(GroupCells(h, "temperature_2m", d))
                   [] c = "t_max_hourly" -> GroupMax(GroupCells(h, "temperature_2m", d))
                   [] c = "rh_mean" -> GroupMean(GroupCells(h, "relative_humidity_2m", d))
                   [] c = "dewpoint_mean" -> GroupMean(GroupCells(h, "dew_point_2m", d))
                   [] c = "precip_sum_hourly" -> GroupSum(GroupCells(h, "precipitation", d))
                   [] c = "wind_max_hourly" -> GroupMax(GroupCells(h, "wind_speed_10m", d))]]]

JoinLeft(a, b) ==
    [idx |-> a.idx,
     col |-> [c \in Columns(a) \cup Columns(b) |->
                [t \in Range(a.idx) |->
                    IF c \in Columns(a) THEN a.col[c][t]
                    ELSE Reindex(b, a.idx).col[c][t]]]]

\* a.join(b, how="outer").sort_index() for frames without a common column
JoinOuter(a, b) ==
    LET idx == UnionIndex(<<a, b>>)
    IN  [idx |-> idx,
         col |-> [c \in Columns(a) \cup Columns(b) |->
                    [t \in Range(idx) |->
                        IF c \in Columns(a) THEN Reindex(a, idx).col[c][t]
                        ELSE Reindex(b, idx).col[c][t]]]]

\* number of hourly records of the payload, 12 hours apart from noon of FirstDay
SummaryHours == 3

HourlyStamps == {FirstDay * 24 + 12 + 12 * i : i \in 0..(SummaryHours - 1)}

\* one hourly record: <<temperature_2m, relative_humidity_2m, dew_point_2m,
\* precipitation, wind_speed_10m>>; even numbers, so a mean of two is exact
HourlyRecords ==
    {<<NaN, NaN, NaN, NaN, NaN>>,
     <<<<100>>, <<60>>, <<40>>, <<0>>, <<20>>>>,
     <<<<-20>>, <<80>>, <<-40>>, <<6>>, <<40>>>>}

HourlyColumns ==
    <<"temperature_2m", "relative_humidity_2m", "dew_point_2m", "precipitation",
      "wind_speed_10m">>

\* hourly_to_dataframe(hist)
HourlyFrames ==
    {[idx |-> SortedSeq(DOMAIN r),
      col |-> [c \in Range(HourlyColumns) |->
                 [t \in DOMAIN r |->
                     r[t][CHOOSE k \in DOMAIN HourlyColumns : HourlyColumns[k] = c]]]] :
        r \in UNION {[S -> HourlyRecords] : S \in SUBSET HourlyStamps}}

\* one row of the source's daily report after the renaming of lines 118-123:
\* <<t_min_api, t_max_api, precip_sum_api, wind_max_api>>
ApiRecords == {<<NaN, NaN, NaN, NaN>>, <<<<90>>, <<110>>, <<4>>, <<50>>>>}

ApiColumns == <<"t_min_api", "t_max_api", "precip_sum_api", "wind_max_api">>

\* daily_to_dataframe(hist).rename(...): the report covers any of the two days
\* after FirstDay
ApiFrames ==
    {[idx |-> SortedSeq(DOMAIN r),
      col |-> [c \in Range(ApiColumns) |->
                 [t \in DOMAIN r |->
                     r[t][CHOOSE k \in DOMAIN ApiColumns : ApiColumns[k] = c]]]] :
        r \in UNION {[S -> ApiRecords] : S \in SUBSET {FirstDay + 1, FirstDay + 2}}}

InitSummary ==
    /\ pc = "payload_received"
    /\ args \in [h : HourlyFrames, d_api : ApiFrames]
    /\ daily = <<>> /\ out = <<>>
    /\ SamplerIdle /\ AggIdle
    /\ StoreIdle

\* pages/1_Weather_&_Forecast.py lines 124-125
SummarizeAndJoin ==
    /\ pc = "payload_received"
    /\ out' = [d_from_h |-> summarize_daily_from_hourly(args.h)]
    /\ daily' = JoinOuter(args.d_api, summarize_daily_from_hourly(args.h))
    /\ pc' = "joined"
    /\ UNCHANGED <<args, samplerVars, aggVars, storeVars>>

NextSummary == SummarizeAndJoin

SpecSummary == InitSummary /\ [][NextSummary]_vars

\* the hourly records of date d that hold a value of column c
HoursWith(c, d) ==
    {t \in Range(args.h.idx) : DateOf(t) = d /\ ~IsNaN(args.h.col[c][t])}

RECURSIVE HourSum(_, _)
HourSum(S, c) ==
    IF S = {} THEN 0
    ELSE LET t == CHOOSE u \in S : TRUE
         IN  Num(args.h.col[c][t]) + HourSum(S \ {t}, c)

IsMeanOf(cell, c, d) ==
    IF HoursWith(c, d) = {} THEN IsNaN(cell)
    ELSE ~IsNaN(cell) /\ Num(cell) * Cardinality(HoursWith(c, d)) = HourSum(HoursWith(c, d), c)

IsMinOf(cell, c, d) ==
    IF HoursWith(c, d) = {} THEN IsNaN(cell)
    ELSE cell = <<SetMin({Num(args.h.col[c][t]) : t \in HoursWith(c, d)})>>

IsMaxOf(cell, c, d) ==
    IF HoursWith(c, d) = {} THEN IsNaN(cell)
    ELSE cell = <<SetMax({Num(args.h.col[c][t]) : t \in HoursWith(c, d)})>>

\* the cell of frame f at label t, missing when f has no such label
CellOrNaN(f, c, t) == IF t \in Range(f.idx) THEN f.col[c][t] ELSE NaN

(* C27: the daily summary has exactly one row per distinct calendar date   *)
(* of the hourly records, each computed from exactly the records of that   *)
(* date (mean / min / max temperature, mean humidity, mean dew point,      *)
(* summed precipitation, max wind); the outer join with the source's daily *)
(* report has the union of both date sets and keeps, for each date, the    *)
(* source's values and the hourly-derived values side by side.             *)
C27_SummaryAndJoin ==
    pc = "joined" =>
        LET s == out.d_from_h
            dates == {DateOf(t) : t \in Range(args.h.idx)}
        IN  /\ Range(s.idx) = dates
            /\ StrictlyIncreasing(s.idx)
            /\ \A d \in dates :
                  /\ IsMeanOf(s.col["t_mean"][d], "temperature_2m", d)
                  /\ IsMinOf(s.col["t_min_hourly"][d], "temperature_2m", d)
                  /\ IsMaxOf(s.col["t_max_hourly"][d], "temperature_2m", d)
                  /\ IsMeanOf(s.col["rh_mean"][d], "relative_humidity_2m", d)
                  /\ IsMeanOf(s.col["dewpoint_mean"][d], "dew_point_2m", d)
                  /\ s.col["precip_sum_hourly"][d] =
                        <<HourSum(HoursWith("precipitation", d), "precipitation")>>
                  /\ IsMaxOf(s.col["wind_max_hourly"][d], "wind_speed_10m", d)
            /\ Range(daily.idx) = dates \cup Range(args.d_api.idx)
            /\ StrictlyIncreasing(daily.idx)
            /\ Columns(daily) = Columns(args.d_api) \cup Columns(s)
            /\ \A t \in Range(daily.idx) :
                  /\ \A c \in Columns(args.d_api) :
                        daily.col[c][t] = CellOrNaN(args.d_api, c, t)
                  /\ \A c \in Columns(s) :
                        daily.col[c][t] = CellOrNaN(s, c, t)

\* a date with two hourly records of different temperature that the source
\* reports too, with both minima kept; a date only the hourly records have and
\* a date only the source has
C27_Witness ==
    /\ pc = "joined"
    /\ \E d \in Range(daily.idx) :
          /\ Cardinality(HoursWith("temperature_2m", d)) = 2
          /\ daily.col["t_min_hourly"][d] = <<-20>>
          /\ daily.col["t_max_hourly"][d] = <<100>>
          /\ daily.col["t_mean"][d] = <<40>>
          /\ daily.col["precip_sum_hourly"][d] = <<6>>
          /\ daily.col["t_min_api"][d] = <<90>>
    /\ \E d \in Range(daily.idx) :
          /\ d \notin Range(args.d_api.idx)
          /\ ~IsNaN(daily.col["t_mean"][d]) /\ IsNaN(daily.col["t_min_api"][d])
    /\ \E d \in Range(daily.idx) :
          /\ d \notin Range(out.d_from_h.idx)
          /\ IsNaN(daily.col["t_mean"][d]) /\ daily.col["t_max_api"][d] = <<110>>

------------------------------------------------------------------------------
(* Session state across pages.  Every interaction reruns the script of the *)
(* page shown.  The Weather page (lines 84-91) and the Hazelnut Guide      *)
(* (lines 80-83) write orchard_geom and sampled_points whenever their map  *)
(* returns a drawn polygon; no other page writes them.  args is            *)
(* st.session_state, sess the browser: the page shown, the Weather page's  *)
(* slider, the polygon the shown map holds; out is what the last polygon   *)
(* Fetch of the Weather page used: the slider's max_points, orchard_geom   *)
(* as read from the session, and the sample points.                        *)

MaxInteractions == 5

Pages == {"weather", "hazelnut", "models"}

\* positions of the "Sampling points inside area" slider; 9 is its default
SliderChoices == {1, 4, 9}

\* the session-state writes of one rerun of the page shown
SessionAfterRerun(state, page, drawing, slider) ==
    IF drawing = <<>> \/ page = "models" THEN state
    ELSE [orchard_geom |-> drawing,
          sampled_points |->
              sample_points_in_polygon(drawing, IF page = "weather" THEN slider ELSE 9)]

InitPages ==
    /\ pc = "browsing"
    /\ args = [orchard_geom |-> <<>>, sampled_points |-> <<>>]
    /\ sess = [page |-> "weather", slider |-> 9, drawing |-> <<>>, steps |-> 0]
    /\ out = <<>>
    /\ store = <<>> /\ daily = <<>>
    /\ SamplerIdle /\ AggIdle

\* another page is opened: its map is empty and its widgets are at their defaults
SwitchPage ==
    /\ sess.steps < MaxInteractions
    /\ \E p \in Pages \ {sess.page} :
          sess' = [page |-> p, slider |-> 9, drawing |-> <<>>, steps |-> sess.steps + 1]
    /\ UNCHANGED <<pc, args, out, store, daily, samplerVars, aggVars>>

\* a polygon is drawn on the map of the page shown
DrawPolygon ==
    /\ sess.steps < MaxInteractions
    /\ \E g \in SessionRings :
          /\ sess' = [sess EXCEPT !.drawing = g, !.steps = @ + 1]
          /\ args' = SessionAfterRerun(args, sess.page, g, sess.slider)
    /\ UNCHANGED <<pc, out, store, daily, samplerVars, aggVars>>

\* the slider of the Weather page is moved
MoveSlider ==
    /\ sess.steps < MaxInteractions /\ sess.page = "weather"
    /\ \E mp \in SliderChoices \ {sess.slider} :
          /\ sess' = [sess EXCEPT !.slider = mp, !.steps = @ + 1]
          /\ args' = SessionAfterRerun(args, sess.page, sess.drawing, mp)
    /\ UNCHANGED <<pc, out, store, daily, samplerVars, aggVars>>

\* "Fetch Data" in polygon mode, pages/1_Weather_&_Forecast.py lines 84-91 and
\* 104-112: out stays empty when no polygon is in the session (line 108-110)
PressFetch ==
    /\ sess.steps < MaxInteractions /\ sess.page = "weather"
    /\ sess' = [sess EXCEPT !.steps = @ + 1]
    /\ args' = SessionAfterRerun(args, sess.page, sess.drawing, sess.slider)
    /\ out' = IF args'.orchard_geom = <<>> THEN <<>>
              ELSE [max_points |-> sess.slider,
                    geom |-> args'.orchard_geom,
                    sample_pts |->
                        IF args'.sampled_points # <<>> THEN args'.sampled_points
                        ELSE sample_points_in_polygon(args'.orchard_geom, sess.slider)]
    /\ pc' = IF args'.orchard_geom = <<>> THEN "browsing" ELSE "area_fetch"
    /\ UNCHANGED <<store, daily, samplerVars, aggVars>>

NextPages == SwitchPage \/ DrawPolygon \/ MoveSlider \/ PressFetch

SpecPages == InitPages /\ [][NextPages]_vars

(* C28: after any sequence of interactions (drawing on any page, moving    *)
(* the slider, switching pages, pressing Fetch) the sample set a Weather-  *)
(* page polygon Fetch uses has at most the currently selected max_points   *)
(* points and was computed from the polygon held in orchard_geom.          *)
C28_FetchUsesCurrentSample ==
    out # <<>> =>
        /\ Len(out.sample_pts) <= out.max_points
        /\ \E mp \in SliderChoices :
              out.sample_pts = sample_points_in_polygon(out.geom, mp)

------------------------------------------------------------------------------
(* Weeks without precipitation data: lib/data_sources.py lines 156-166 and *)
(* pages/4_Models_&_Alerts.py lines 149-164                                *)

\* the dates a daily index may hold: a Monday, the Tuesday after it, and the
\* Tuesdays one and two weeks later, so that an index can skip whole weeks
SparseDays == {FirstDay, FirstDay + 1, FirstDay + 8, FirstDay + 15}

\* precipitation cells, tenths of a mm
SparseCells == {NaN, <<0>>, <<100>>}

\* thresholds at zero, just above it, and at the page's default
SparseThresholds == {0, 1, 250}

\* daily frames with a precipitation column over a sorted index with gaps
SparseFrames ==
    UNION {{[idx |-> SortedSeq(S), col |-> [c \in {"precip_sum_api"} |-> f]] :
               f \in [S -> SparseCells]} :
           S \in (SUBSET SparseDays) \ {{}}}

InitSparseWeeks ==
    /\ pc = "alerts_ready"
    /\ daily \in SparseFrames
    /\ args \in [weeks_months : MonthSets, weekly_precip_threshold : SparseThresholds]
    /\ out = <<>>
    /\ SamplerIdle /\ AggIdle
    /\ StoreIdle

SpecSparseWeeks == InitSparseWeeks /\ [][NextWeekly]_vars

\* the Mondays from the first date's bin to the last date's bin
BinsSpanned ==
    {L \in WeekLabel(daily.idx[1])..WeekLabel(daily.idx[Len(daily.idx)]) : Weekday(L) = 0}

\* the daily records that fall in the bin labelled L
RecordsOfBin(L) == {t \in Range(daily.idx) : L - 6 <= t /\ t <= L}

\* no day of the bin has a precipitation value: all missing, or no record
BinWithoutData(L) == \A t \in RecordsOfBin(L) : IsNaN(PrOf(t))

(* C30: weekly_precip_from_daily counts missing daily precipitation as 0:  *)
(* every weekly bucket from the first date's to the last date's is in the  *)
(* result, and one whose days all have missing precipitation, or which has *)
(* no daily record, gets precip_week_sum = 0 (not missing); when the month *)
(* of its label is monitored, it is in the triggered subset for every      *)
(* threshold above 0.                                                      *)
C30_MissingCountsAsZero ==
    (pc = "alerts_done" /\ ~out.info) =>
        \A L \in BinsSpanned :
            /\ L \in Range(out.weekly.idx)
            /\ BinWithoutData(L) =>
                  /\ out.weekly.col["precip_week_sum"][L] = <<0>>
                  /\ (MonthOf(L) \in args.weeks_months /\ args.weekly_precip_threshold > 0)
                        => L \in Range(out.drought_weeks)

\* a monitored bucket with records that are all missing and a monitored bucket
\* with no record at all, both triggered under the smallest positive threshold
C30_Witness ==
    /\ pc = "alerts_done" /\ ~out.info
    /\ args.weekly_precip_threshold = 1
    /\ \E L1, L2 \in Range(out.drought_weeks) :
          /\ RecordsOfBin(L1) # {} /\ BinWithoutData(L1)
          /\ RecordsOfBin(L2) = {}
          /\ out.weekly.col["precip_week_sum"][L1] = <<0>>
          /\ out.weekly.col["precip_week_sum"][L2] = <<0>>

=============================================================================
